---- MODULE Spec2Model ----
(***************************************************************************)
(* A model of src/game.js (Angry Birds, gesture edition): the structure     *)
(* placement engine (PhysicsWorld), the input handlers that aim and launch  *)
(* the bird, the per-frame physics step, the deferred round evaluation and  *)
(* the game loop.                                                           *)
(*                                                                          *)
(* Numbers.  The program computes with JS doubles.  The model is fixed      *)
(* point: a length, a coordinate, a velocity or a health h is the integer   *)
(* h * SCALE, and a fractional program constant is the pair                 *)
(* <<numerator, denominator>>.  A product is truncated toward zero.         *)
(* A missing field of a level descriptor is 0 (or ""): every read of such   *)
(* a field in the program is "obj.f || default", which takes 0 and          *)
(* undefined alike.                                                         *)
(***************************************************************************)
EXTENDS Integers, Sequences, FiniteSets, TLC

VARIABLES
    gameState,    \* the gameState object
    canvas,       \* elements.canvas: [width, height], in pixels
    now,          \* the reading of Date.now(), in ms since the page load
    timers,       \* the number of pending birdStopped timeouts
    loop,         \* gameLoop: [pc, delivered]
    ui,           \* the DOM: [started, modal, modalNext]
    steps,        \* the number of physics steps of the run
    removed,      \* the ids removed from pigs or blocks in this round
    scored,       \* the score increments of this round: [id, points]
    physicsWorld, \* the PhysicsWorld object of the latest placement
    placing,      \* processLevel at work: [objects, i, pigs, blocks, done, runs, first]
    aim           \* history: when the pull of the pointer that is down, and of the
                  \* pinch that is held, started in this round: [pointer, pinch]

vars == <<gameState, canvas, now, timers, loop, ui, steps, removed, scored,
          physicsWorld, placing, aim>>

\* ------------------------------------------------------------------ bounds
\* fixed-point resolution: units per pixel
SCALE == 10
\* physics steps in a run of the game
MaxSteps == 2
\* clock advances in a run, each of the aim duration
MaxClock == 1
\* the highest level reached by nextLevel
MaxLevel == 2
\* physics steps in a run of the flights
MaxFlightSteps == 14
\* the longest descriptor list given to the placement, besides the levels
MaxObjects == 3
\* calls of processLevel on one descriptor list
MaxRuns == 2

\* ------------------------------------------------------- program constants
GRAVITY == <<1, 2>>
FRICTION == <<99, 100>>
GROUND_Y_RATIO == <<85, 100>>
SLINGSHOT_X_RATIO == <<75, 100>>
SLINGSHOT_Y_RATIO == <<65, 100>>
MAX_PULL_DISTANCE == 150
LAUNCH_POWER_MULTIPLIER == <<38, 100>>
MAX_LAUNCH_SPEED == 55
minPullDuration == 2000

\* -------------------------------------------------------------- arithmetic
Abs(a) == IF a < 0 THEN -a ELSE a

\* a / d truncated toward zero (d > 0)
Trunc(a, d) == IF a >= 0 THEN a \div d ELSE -((-a) \div d)

\* v * q for a fractional constant q = <<n, d>>
Mul(v, q) == Trunc(v * q[1], q[2])

Min2(a, b) == IF a < b THEN a ELSE b
Max2(a, b) == IF a > b THEN a ELSE b

\* a pixel count as a fixed-point length
Px(n) == n * SCALE

\* ------------------------------------------------------------ level data
\* A descriptor of LEVEL_DEFINITIONS: x is in hundredths of the cv width.
Obj(x, type, material, width, height, radius) ==
    [x |-> x, type |-> type, material |-> material,
     width |-> width, height |-> height, radius |-> radius]

Pillar(x, m, h) == Obj(x, "pillar", m, 0, h, 0)
Beam(x, m, w) == Obj(x, "beam", m, w, 0, 0)
Pig(x, r) == Obj(x, "pig", "", 0, 0, r)
Block(x, m, w, h) == Obj(x, "block", m, w, h, 0)

LEVEL_DEFINITIONS ==
    << [birds |-> 5, objects |-> <<
          Pillar(15, "wood", 80), Pillar(35, "wood", 80),
          Beam(25, "wood", 160),
          Pig(25, 22), Block(25, "wood", 50, 20) >>],
       [birds |-> 6, objects |-> <<
          Pillar(12, "wood", 90), Pillar(20, "wood", 90),
          Beam(16, "wood", 70),
          Pig(16, 18), Block(16, "wood", 40, 15),
          Pillar(36, "wood", 90), Pillar(44, "wood", 90),
          Beam(40, "wood", 70),
          Pig(40, 18), Block(40, "wood", 40, 15),
          Beam(28, "wood", 180) >>],
       [birds |-> 7, objects |-> <<
          Pillar(8, "stone", 100), Pillar(52, "stone", 100),
          Pillar(18, "wood", 80), Pillar(30, "wood", 80), Pillar(42, "wood", 80),
          Beam(30, "stone", 220),
          Pig(18, 16), Block(18, "wood", 35, 12),
          Pig(30, 18), Block(30, "stone", 40, 12),
          Pig(42, 16), Block(42, "wood", 35, 12),
          Pillar(24, "wood", 50), Pillar(36, "wood", 50),
          Beam(30, "stone", 120) >>],
       [birds |-> 8, objects |-> <<
          Pillar(6, "stone", 120), Pillar(54, "stone", 120),
          Pillar(18, "wood", 100), Pillar(30, "wood", 100), Pillar(42, "wood", 100),
          Beam(30, "stone", 240),
          Pig(18, 16), Block(18, "wood", 35, 12),
          Pig(30, 18), Block(30, "wood", 40, 12),
          Pig(42, 16), Block(42, "wood", 35, 12),
          Pillar(24, "wood", 60), Pillar(36, "wood", 60),
          Beam(30, "stone", 140),
          Pig(30, 20), Block(30, "wood", 45, 15) >>],
       [birds |-> 10, objects |-> <<
          Pillar(4, "stone", 140), Pillar(60, "stone", 140),
          Pillar(14, "wood", 110), Pillar(24, "wood", 110), Pillar(32, "wood", 110),
          Pillar(40, "wood", 110), Pillar(50, "wood", 110),
          Beam(32, "stone", 300),
          Pig(14, 14), Block(14, "wood", 32, 10),
          Pig(28, 16), Block(28, "wood", 35, 10),
          Pig(36, 16), Block(36, "wood", 35, 10),
          Pig(50, 14), Block(50, "wood", 32, 10),
          Pillar(24, "wood", 60), Pillar(40, "wood", 60),
          Beam(32, "stone", 180),
          Pig(32, 18), Block(32, "wood", 40, 12),
          Pillar(28, "wood", 40), Pillar(36, "wood", 40),
          Beam(32, "wood", 100),
          Pig(32, 16), Block(32, "stone", 35, 12) >>] >>

\* Op applied to the value of v, computed once
Then(v, Op(_)) == CHOOSE r \in {Op(x) : x \in {v}} : TRUE

\* ------------------------------------------------------- PhysicsWorld
\* new PhysicsWorld(canvasWidth, canvasHeight); the sizes are in pixels
PhysicsWorld(canvasWidth, canvasHeight) ==
    [canvasWidth |-> Px(canvasWidth),
     canvasHeight |-> Px(canvasHeight),
     groundY |-> Mul(Px(canvasHeight), GROUND_Y_RATIO),
     occupiedSpaces |-> << >>]

\* f, whatever it is
NoDefault(f, d) == f

\* f || d
OrDefault(f, d) == IF f = 0 THEN d ELSE f

getObjectSize(obj) ==
    IF obj.type = "pig"
    THEN LET radius == OrDefault(obj.radius, 20)
         IN [width |-> Px(radius * 2), height |-> Px(radius * 2), radius |-> Px(radius)]
    ELSE IF obj.type = "pillar"
    THEN [width |-> Px(15), height |-> Px(OrDefault(obj.height, 80)), radius |-> 0]
    ELSE IF obj.type = "beam"
    THEN [width |-> Px(OrDefault(obj.width, 100)), height |-> Px(15), radius |-> 0]
    ELSE [width |-> Px(OrDefault(obj.width, 40)),
          height |-> Px(OrDefault(obj.height, 40)), radius |-> 0]

\* the test with the right edge of the earlier span counted in
XOverlapRightClosed(xLeft, xRight, space) == xRight > space.xLeft /\ xLeft <= space.xRight

\* the test with the edges counted in
XOverlapClosed(xLeft, xRight, space) == xRight >= space.xLeft /\ xLeft <= space.xRight

\* the test of findPlacementY's loop: do the x ranges intersect
XOverlap(xLeft, xRight, space) == xRight > space.xLeft /\ xLeft < space.xRight

RECURSIVE FindFrom(_, _, _, _, _)
FindFrom(spaces, i, xLeft, xRight, highestTop) ==
    IF i > Len(spaces) THEN highestTop
    ELSE FindFrom(spaces, i + 1, xLeft, xRight,
                  IF XOverlap(xLeft, xRight, spaces[i]) /\ spaces[i].top < highestTop
                  THEN spaces[i].top ELSE highestTop)

\* every object on the ground
findPlacementYGround(world, xLeft, xRight) == world.groundY

findPlacementY(world, xLeft, xRight) ==
    FindFrom(world.occupiedSpaces, 1, xLeft, xRight, world.groundY)

\* placeObject: the world with the new span recorded, and the placed body
placeObject(world, obj) ==
    LET x == Trunc(obj.x * world.canvasWidth, 100)
        size == getObjectSize(obj)
        xLeft == x - Trunc(size.width, 2)
        xRight == x + Trunc(size.width, 2)
        bottomY == findPlacementY(world, xLeft, xRight)
        centerY == bottomY - Trunc(size.height, 2)
        topY == bottomY - size.height
        space == [xLeft |-> xLeft, xRight |-> xRight, top |-> topY,
                  bottom |-> bottomY, type |-> obj.type]
    IN [world |-> [world EXCEPT !.occupiedSpaces = Append(@, space)],
        placed |-> IF obj.type = "pig"
                   THEN [type |-> "pig", x |-> x, y |-> centerY,
                         radius |-> size.radius, width |-> 0, height |-> 0,
                         material |-> ""]
                   ELSE [type |-> "block", x |-> x, y |-> centerY,
                         radius |-> 0, width |-> size.width, height |-> size.height,
                         material |-> IF obj.material = "" THEN "wood"
                                      ELSE obj.material]]

\* the body pushed by processLevel for a placed pig
NewPig(placed, id) ==
    [id |-> id, x |-> placed.x, y |-> placed.y, radius |-> placed.radius,
     health |-> placed.radius, vx |-> 0, vy |-> 0]

\* the body pushed by processLevel for a placed block
NewBlock(placed, id) ==
    [id |-> id, x |-> placed.x, y |-> placed.y,
     width |-> placed.width, height |-> placed.height, type |-> placed.material,
     health |-> IF placed.material = "stone" THEN Px(100) ELSE Px(50),
     vx |-> 0, vy |-> 0]

\* one iteration of processLevel's loop, on st = [world, pigs, blocks]
\* (id: the descriptor's index, the identity of the body it creates)
ProcessOne(st, obj, id) ==
    LET r == placeObject(st.world, obj)
    IN IF r.placed.type = "pig"
       THEN [world |-> r.world, pigs |-> Append(st.pigs, NewPig(r.placed, id)),
             blocks |-> st.blocks]
       ELSE [world |-> r.world, pigs |-> st.pigs,
             blocks |-> Append(st.blocks, NewBlock(r.placed, id))]

RECURSIVE ProcessFrom(_, _, _)
ProcessFrom(st, objects, i) ==
    IF i > Len(objects) THEN st
    ELSE Then(ProcessOne(st, objects[i], i),
              LAMBDA next : ProcessFrom(next, objects, i + 1))

\* processLevel on a world: [world, pigs, blocks]
processLevel(world, objects) ==
    ProcessFrom([world |-> world, pigs |-> << >>, blocks |-> << >>], objects, 1)

\* ------------------------------------------------------------- geometry
RECURSIVE SqrtBetween(_, _, _)
SqrtBetween(n, lo, hi) ==
    IF lo >= hi THEN lo
    ELSE LET mid == (lo + hi + 1) \div 2
         IN IF mid * mid <= n THEN SqrtBetween(n, mid, hi)
            ELSE SqrtBetween(n, lo, mid - 1)

\* Math.sqrt, rounded down to the fixed-point grid (n < 2^30)
ISqrt(n) == SqrtBetween(n, 0, 32767)

\* the test that takes touching circles as colliding
checkCircleCollisionClosed(c1, c2) ==
    LET dx == c1.x - c2.x
        dy == c1.y - c2.y
        rr == c1.radius + c2.radius
    IN rr >= 0 /\ dx * dx + dy * dy <= rr * rr

\* Math.sqrt(dx*dx + dy*dy) < c1.radius + c2.radius
checkCircleCollision(c1, c2) ==
    LET dx == c1.x - c2.x
        dy == c1.y - c2.y
        rr == c1.radius + c2.radius
    IN rr > 0 /\ dx * dx + dy * dy < rr * rr

checkCircleRectCollision(circle, rect) ==
    LET closestX == Max2(rect.x - Trunc(rect.width, 2),
                         Min2(circle.x, rect.x + Trunc(rect.width, 2)))
        closestY == Max2(rect.y - Trunc(rect.height, 2),
                         Min2(circle.y, rect.y + Trunc(rect.height, 2)))
        dx == circle.x - closestX
        dy == circle.y - closestY
    IN dx * dx + dy * dy < circle.radius * circle.radius

\* remove the element at index i: array.splice(i, 1)
Splice(s, i) == [k \in 1..(Len(s) - 1) |-> IF k < i THEN s[k] ELSE s[k + 1]]

\* -------------------------------------------------------------- physics
\* The physics step works on g: the gameState object (its particles field is
\* the number of live particles) together with
\*   timers   the pending round evaluations set up by birdStopped,
\*   removed  the ids spliced out of pigs or blocks in this round, in order,
\*   scored   one entry [id, points] for each score increment of the round.
\* bird is the step's local variable: it keeps the bird object when
\* birdStopped has already cleared gameState.currentBird.
NoBird == [isNull |-> TRUE]

createParticles(g, count) == [g EXCEPT !.particles = @ + count]

\* the bird is dropped and no round evaluation is set up
birdStoppedNoTimeout(g) == [g EXCEPT !.currentBird = NoBird]

\* birdStopped: the bird is dropped and the round evaluation is deferred
birdStopped(g) == [g EXCEPT !.currentBird = NoBird, !.timers = @ + 1]

\* friction and gravity on the velocity, and the bird left where it is
IntegrateVelocityOnly(bird) ==
    [bird EXCEPT !.vx = Mul(bird.vx, FRICTION),
                 !.vy = Mul(bird.vy, FRICTION) + Mul(Px(1), GRAVITY)]

\* lines 1072-1076: friction, gravity, position
Integrate(bird) ==
    LET vx == Mul(bird.vx, FRICTION)
        vy == Mul(bird.vy, FRICTION) + Mul(Px(1), GRAVITY)
    IN [bird EXCEPT !.vx = vx, !.vy = vy, !.x = bird.x + vx, !.y = bird.y + vy]

\* the ground bounce that drops the bird at rest and sets up no evaluation
GroundBounceNoEvaluation(g, bird, groundY) ==
    IF bird.y + bird.radius > groundY
    THEN LET b == [bird EXCEPT !.y = groundY - bird.radius,
                               !.vy = Mul(bird.vy, <<-1, 2>>),
                               !.vx = Mul(bird.vx, <<8, 10>>)]
         IN [g |-> IF Abs(b.vx) * 2 < Px(1) /\ Abs(b.vy) * 2 < Px(1)
                   THEN [g EXCEPT !.currentBird = NoBird] ELSE g,
             bird |-> b]
    ELSE [g |-> g, bird |-> bird]

\* lines 1078-1084: the ground bounce; [g, bird]
GroundBounce(g, bird, groundY) ==
    IF bird.y + bird.radius > groundY
    THEN LET b == [bird EXCEPT !.y = groundY - bird.radius,
                               !.vy = Mul(bird.vy, <<-1, 2>>),
                               !.vx = Mul(bird.vx, <<8, 10>>)]
         IN [g |-> IF Abs(b.vx) * 2 < Px(1) /\ Abs(b.vy) * 2 < Px(1)
                   THEN birdStopped(g) ELSE g,
             bird |-> b]
    ELSE [g |-> g, bird |-> bird]

\* line 1086: leaving the horizontal bounds
OutOfBounds(g, bird, cv) ==
    IF bird.x > Px(cv.width) + Px(100) \/ bird.x < -Px(100)
    THEN birdStopped(g) ELSE g

\* the removal that scores and leaves the pig in the list
RemovePigKept(g, i) ==
    IF g.pigs[i].health <= 0
    THEN createParticles(
           [g EXCEPT !.score = @ + 500,
                     !.removed = Append(@, g.pigs[i].id),
                     !.scored = Append(@, [id |-> g.pigs[i].id, points |-> 500])],
           20)
    ELSE g

\* lines 1095-1100: the removal of a pig whose health is used up
RemovePig(g, i) ==
    IF g.pigs[i].health <= 0
    THEN createParticles(
           [g EXCEPT !.pigs = Splice(@, i),
                     !.score = @ + 500,
                     !.removed = Append(@, g.pigs[i].id),
                     !.scored = Append(@, [id |-> g.pigs[i].id, points |-> 500])],
           20)
    ELSE g

\* lines 1089-1103: one iteration of the pig loop; [g, bird]
HitPig(g, bird, i) ==
    IF checkCircleCollision(bird, g.pigs[i])
    THEN LET g1 == createParticles(
                     [g EXCEPT !.pigs[i].health = @ - Px(30),
                               !.pigs[i].vx = @ + Mul(bird.vx, <<3, 10>>),
                               !.pigs[i].vy = @ + Mul(bird.vy, <<3, 10>>)],
                     10)
         IN [g |-> RemovePig(g1, i),
             bird |-> [bird EXCEPT !.vx = Mul(@, <<7, 10>>), !.vy = Mul(@, <<7, 10>>)]]
    ELSE [g |-> g, bird |-> bird]

\* the pig loop run upwards: for (k = 0; k < pigs.length; k++), where the
\* splice moves the next pig under the index that was just tested
RECURSIVE PigLoopUp(_, _, _)
PigLoopUp(g, bird, k) ==
    IF k > Len(g.pigs) THEN [g |-> g, bird |-> bird]
    ELSE Then(HitPig(g, bird, k), LAMBDA r : PigLoopUp(r.g, r.bird, k + 1))

PigLoopForward(g, bird, i) == PigLoopUp(g, bird, 1)

\* lines 1088-1104: for (i = pigs.length - 1; i >= 0; i--)
RECURSIVE PigLoop(_, _, _)
PigLoop(g, bird, i) ==
    IF i < 1 THEN [g |-> g, bird |-> bird]
    ELSE Then(HitPig(g, bird, i), LAMBDA r : PigLoop(r.g, r.bird, i - 1))

\* the removal that scores and leaves the block in the list
RemoveBlockKept(g, i) ==
    IF g.blocks[i].health <= 0
    THEN createParticles(
           [g EXCEPT !.score = @ + 100,
                     !.removed = Append(@, g.blocks[i].id),
                     !.scored = Append(@, [id |-> g.blocks[i].id, points |-> 100])],
           15)
    ELSE g

\* lines 1114-1119: the removal of a block whose health is used up
RemoveBlock(g, i) ==
    IF g.blocks[i].health <= 0
    THEN createParticles(
           [g EXCEPT !.blocks = Splice(@, i),
                     !.score = @ + 100,
                     !.removed = Append(@, g.blocks[i].id),
                     !.scored = Append(@, [id |-> g.blocks[i].id, points |-> 100])],
           15)
    ELSE g

\* lines 1107-1122: one iteration of the block loop; [g, bird]
HitBlock(g, bird, i) ==
    IF checkCircleRectCollision(bird, g.blocks[i])
    THEN LET damage == ISqrt(bird.vx * bird.vx + bird.vy * bird.vy) * 2
             g1 == createParticles(
                     [g EXCEPT !.blocks[i].health = @ - damage,
                               !.blocks[i].vx = @ + Mul(bird.vx, <<2, 10>>),
                               !.blocks[i].vy = @ + Mul(bird.vy, <<2, 10>>)],
                     5)
         IN [g |-> RemoveBlock(g1, i),
             bird |-> [bird EXCEPT !.vx = Mul(@, <<-1, 2>>), !.vy = Mul(@, <<8, 10>>)]]
    ELSE [g |-> g, bird |-> bird]

\* lines 1106-1123: for (i = blocks.length - 1; i >= 0; i--)
RECURSIVE BlockLoop(_, _, _)
BlockLoop(g, bird, i) ==
    IF i < 1 THEN [g |-> g, bird |-> bird]
    ELSE Then(HitBlock(g, bird, i), LAMBDA r : BlockLoop(r.g, r.bird, i - 1))

\* lines 1070-1124: the flight of a launched bird
BirdStep(g, cv) ==
    IF ~g.currentBird.isNull /\ g.currentBird.isLaunched
    THEN LET groundY == Mul(Px(cv.height), GROUND_Y_RATIO)
             Bounced == GroundBounce(g, Integrate(g.currentBird), groundY)
             Bounds(a) == [g |-> OutOfBounds(a.g, a.bird, cv), bird |-> a.bird]
             Pigs(b) == PigLoop(b.g, b.bird, Len(b.g.pigs))
             Blocks(c) == BlockLoop(c.g, c.bird, Len(c.g.blocks))
             \* the updates went to the bird object: gameState sees them
             \* unless birdStopped dropped the object
             Seen(d) == IF d.g.currentBird.isNull THEN d.g
                        ELSE [d.g EXCEPT !.currentBird = d.bird]
         IN Then(Then(Then(Then(Bounced, Bounds), Pigs), Blocks), Seen)
    ELSE g

\* lines 1128-1138
SettlePig(pig, groundY) ==
    LET vx == Mul(pig.vx, <<95, 100>>)
        vy == Mul(pig.vy, <<95, 100>>) + Mul(Mul(Px(1), GRAVITY), <<5, 10>>)
        y == pig.y + vy
    IN IF y + pig.radius > groundY
       THEN [pig EXCEPT !.vx = vx, !.x = pig.x + vx,
                        !.y = groundY - pig.radius, !.vy = Mul(vy, <<-3, 10>>)]
       ELSE [pig EXCEPT !.vx = vx, !.vy = vy, !.x = pig.x + vx, !.y = y]

\* the motion of a block with no ground under it
SettleBlockNoClamp(block, groundY) ==
    LET vx == Mul(block.vx, <<95, 100>>)
        vy == Mul(block.vy, <<95, 100>>) + Mul(Mul(Px(1), GRAVITY), <<3, 10>>)
    IN [block EXCEPT !.vx = vx, !.vy = vy, !.x = block.x + vx, !.y = block.y + vy]

\* lines 1140-1150
SettleBlock(block, groundY) ==
    LET vx == Mul(block.vx, <<95, 100>>)
        vy == Mul(block.vy, <<95, 100>>) + Mul(Mul(Px(1), GRAVITY), <<3, 10>>)
        y == block.y + vy
    IN IF y + Trunc(block.height, 2) > groundY
       THEN [block EXCEPT !.vx = vx, !.x = block.x + vx,
                          !.y = groundY - Trunc(block.height, 2),
                          !.vy = Mul(vy, <<-2, 10>>)]
       ELSE [block EXCEPT !.vx = vx, !.vy = vy, !.x = block.x + vx, !.y = y]

\* lines 1152-1158.  A particle lives 30 + Math.random() * 20 steps; the
\* model keeps the number of live particles, and a step prunes none of
\* them or all of them (prune).
StepParticles(n, prune) == IF prune THEN 0 ELSE n

updatePhysics(g, cv, prune) ==
    LET groundY == Mul(Px(cv.height), GROUND_Y_RATIO)
        Settle(b) ==
            [b EXCEPT !.pigs = [k \in 1..Len(b.pigs) |-> SettlePig(b.pigs[k], groundY)],
                      !.blocks = [k \in 1..Len(b.blocks) |-> SettleBlock(b.blocks[k], groundY)],
                      !.particles = StepParticles(@, prune)]
    IN Then(BirdStep(g, cv), Settle)

\* ------------------------------------------------------------ gameState
NoPoint == [isNull |-> TRUE]
Point(x, y) == [isNull |-> FALSE, x |-> x, y |-> y]

\* pullStartTime: null
NoTime == -1

\* the gameState object as the script creates it (lines 106-138).  Left out
\* are the fields no handler reads back: cameraStream, hands, clouds,
\* handLandmarks, pinchDistance, isTouchDevice, touchStartPos, and handCenter,
\* which detectPinchGesture reads only after writing it in the same call
\* (center) and the canvas drawing reads besides.
InitialGameState ==
    [isLoaded |-> FALSE, isCameraActive |-> FALSE, isPlaying |-> FALSE,
     isPulling |-> FALSE, canLaunch |-> TRUE, needsHandReset |-> FALSE,
     score |-> 0, level |-> 1, birdsLeft |-> 5, currentBird |-> NoBird,
     pullStart |-> NoPoint, pullEnd |-> NoPoint,
     launchVelocity |-> [x |-> 0, y |-> 0],
     pigs |-> << >>, blocks |-> << >>, particles |-> 0, trajectory |-> << >>,
     isPinching |-> FALSE,
     pullStartTime |-> NoTime, levelPassed |-> FALSE, isTouching |-> FALSE]

SlingshotX(cv) == Mul(Px(cv.width), SLINGSHOT_X_RATIO)
SlingshotY(cv) == Mul(Px(cv.height), SLINGSHOT_Y_RATIO)

\* Date.now() - gameState.pullStartTime at clock reading t.  The model's
\* clock counts from the page load, long after the epoch, so Date.now() - null
\* (= Date.now()) is beyond any aim duration.
PullDuration(gs, t) ==
    IF gs.pullStartTime = NoTime THEN t + minPullDuration ELSE t - gs.pullStartTime

\* lines 967-975: the preview loop from step i
\* the preview loop without its break: 50 points whatever they are
RECURSIVE TrajectoryFromNoBreak(_, _, _, _, _, _, _)
TrajectoryFromNoBreak(i, x, y, vx, vy, cv, acc) ==
    IF i >= 50 THEN acc
    ELSE LET vx1 == Mul(vx, FRICTION)
             vy1 == Mul(vy, FRICTION) + Mul(Px(1), GRAVITY)
         IN TrajectoryFromNoBreak(i + 1, x + vx1, y + vy1, vx1, vy1, cv,
                                  Append(acc, [x |-> x, y |-> y]))

RECURSIVE TrajectoryFrom(_, _, _, _, _, _, _)
TrajectoryFrom(i, x, y, vx, vy, cv, acc) ==
    IF i >= 50 THEN acc
    ELSE LET vx1 == Mul(vx, FRICTION)
             vy1 == Mul(vy, FRICTION) + Mul(Px(1), GRAVITY)
             x1 == x + vx1
             y1 == y + vy1
         IN IF y1 > Mul(Px(cv.height), GROUND_Y_RATIO) \/ x1 < 0
            THEN Append(acc, [x |-> x, y |-> y])
            ELSE TrajectoryFrom(i + 1, x1, y1, vx1, vy1, cv,
                                Append(acc, [x |-> x, y |-> y]))

calculateTrajectory(gs, cv) ==
    IF gs.launchVelocity.x = 0 THEN [gs EXCEPT !.trajectory = << >>]
    ELSE [gs EXCEPT !.trajectory =
            TrajectoryFrom(0, SlingshotX(cv), SlingshotY(cv),
                           gs.launchVelocity.x, gs.launchVelocity.y, cv, << >>)]

\* the launch velocity with no cap on its speed
LaunchVelocityUncapped(pullDx, pullDy) ==
    [x |-> -Mul(pullDx, LAUNCH_POWER_MULTIPLIER),
     y |-> -Mul(pullDy, LAUNCH_POWER_MULTIPLIER)]

\* lines 933-941: the launch velocity of a pull vector.  speed > 55 is
\* tested on the squares, so that the rounding of the root does not move
\* the threshold.
LaunchVelocity(pullDx, pullDy) ==
    LET vx == -Mul(pullDx, LAUNCH_POWER_MULTIPLIER)
        vy == -Mul(pullDy, LAUNCH_POWER_MULTIPLIER)
        speed == ISqrt(vx * vx + vy * vy)
    IN IF vx * vx + vy * vy > Px(MAX_LAUNCH_SPEED) * Px(MAX_LAUNCH_SPEED)
       THEN [x |-> Trunc(vx * Px(MAX_LAUNCH_SPEED), speed),
             y |-> Trunc(vy * Px(MAX_LAUNCH_SPEED), speed)]
       ELSE [x |-> vx, y |-> vy]

updatePullForce(gs, cv) ==
    IF gs.pullStart.isNull \/ gs.pullEnd.isNull THEN gs
    ELSE LET pullDx == gs.pullEnd.x - gs.pullStart.x
             pullDy == gs.pullEnd.y - gs.pullStart.y
             distance == Min2(ISqrt(pullDx * pullDx + pullDy * pullDy),
                              Px(MAX_PULL_DISTANCE))
             \* pullDx * pullRatio * 0.5, pullRatio = distance / MAX_PULL_DISTANCE
             offX == Trunc(pullDx * distance, 2 * Px(MAX_PULL_DISTANCE))
             offY == Trunc(pullDy * distance, 2 * Px(MAX_PULL_DISTANCE))
             g1 == [gs EXCEPT !.launchVelocity = LaunchVelocity(pullDx, pullDy)]
             g2 == IF g1.currentBird.isNull THEN g1
                   ELSE [g1 EXCEPT !.currentBird.x = SlingshotX(cv) + offX,
                                   !.currentBird.y = SlingshotY(cv) + offY]
         IN calculateTrajectory(g2, cv)

resetBirdPosition(gs, cv) ==
    IF gs.currentBird.isNull THEN gs
    ELSE [gs EXCEPT !.currentBird.x = SlingshotX(cv),
                    !.currentBird.y = SlingshotY(cv)]

\* a launch that also throws up particles
launchBirdWithBurst(gs) ==
    IF gs.currentBird.isNull \/ ~gs.canLaunch THEN gs
    ELSE [gs EXCEPT !.currentBird.vx = gs.launchVelocity.x,
                    !.currentBird.vy = gs.launchVelocity.y,
                    !.currentBird.isLaunched = TRUE,
                    !.isPulling = FALSE,
                    !.pullStartTime = NoTime,
                    !.canLaunch = FALSE,
                    !.needsHandReset = TRUE,
                    !.trajectory = << >>,
                    !.birdsLeft = @ - 1,
                    !.particles = @ + 5]

launchBird(gs) ==
    IF gs.currentBird.isNull \/ ~gs.canLaunch THEN gs
    ELSE [gs EXCEPT !.currentBird.vx = gs.launchVelocity.x,
                    !.currentBird.vy = gs.launchVelocity.y,
                    !.currentBird.isLaunched = TRUE,
                    !.isPulling = FALSE,
                    !.pullStartTime = NoTime,
                    !.canLaunch = FALSE,
                    !.needsHandReset = TRUE,
                    !.trajectory = << >>,
                    !.birdsLeft = @ - 1]

\* a new bird that leaves canLaunch as the launch left it
spawnBirdLocked(gs, cv) ==
    [gs EXCEPT !.currentBird = [isNull |-> FALSE,
                                x |-> SlingshotX(cv), y |-> SlingshotY(cv),
                                radius |-> Px(22), vx |-> 0, vy |-> 0,
                                isLaunched |-> FALSE],
               !.isPulling = FALSE,
               !.pullStart = NoPoint,
               !.pullEnd = NoPoint,
               !.launchVelocity = [x |-> 0, y |-> 0],
               !.trajectory = << >>]

spawnBird(gs, cv) ==
    [gs EXCEPT !.currentBird = [isNull |-> FALSE,
                                x |-> SlingshotX(cv), y |-> SlingshotY(cv),
                                radius |-> Px(22), vx |-> 0, vy |-> 0,
                                isLaunched |-> FALSE],
               !.canLaunch = TRUE,
               !.isPulling = FALSE,
               !.pullStart = NoPoint,
               !.pullEnd = NoPoint,
               !.launchVelocity = [x |-> 0, y |-> 0],
               !.trajectory = << >>]

\* ----------------------------------------------------- pointer handlers
\* dist < 80 between the pointer and the bird
NearBird(gs, p) ==
    LET dx == p.x - gs.currentBird.x
        dy == p.y - gs.currentBird.y
    IN dx * dx + dy * dy < Px(80) * Px(80)

\* a pointer that takes any bird near it, launched or not
PullStartsUnlocked(gs, p) == ~gs.currentBird.isNull /\ NearBird(gs, p)

\* the pointer at p takes the bird: the guards of handleTouchStart and of
\* handleMouseDown
PullStarts(gs, p) == gs.canLaunch /\ ~gs.currentBird.isNull /\ NearBird(gs, p)

\* the release test with > for >=
ReleasePullStrict(gs, t, cv) ==
    IF PullDuration(gs, t) > minPullDuration
    THEN launchBird(gs)
    ELSE resetBirdPosition([gs EXCEPT !.isPulling = FALSE, !.pullStartTime = NoTime],
                           cv)

\* the release test that leaves the bird where the pull took it
ReleasePullNoReset(gs, t, cv) ==
    IF PullDuration(gs, t) >= minPullDuration
    THEN launchBird(gs)
    ELSE [gs EXCEPT !.isPulling = FALSE, !.pullStartTime = NoTime]

\* the release test shared by the handlers: pullDuration >= minPullDuration
\* launches, a shorter pull is cancelled
ReleasePull(gs, t, cv) ==
    IF PullDuration(gs, t) >= minPullDuration
    THEN launchBird(gs)
    ELSE resetBirdPosition([gs EXCEPT !.isPulling = FALSE, !.pullStartTime = NoTime],
                           cv)

handleTouchStart(gs, p, t) ==
    IF PullStarts(gs, p)
    THEN [gs EXCEPT !.isTouching = TRUE, !.pullStart = p,
                    !.pullStartTime = t, !.isPulling = TRUE]
    ELSE gs

handleTouchMove(gs, p, cv) ==
    IF ~gs.isTouching \/ ~gs.isPulling THEN gs
    ELSE updatePullForce([gs EXCEPT !.pullEnd = p], cv)

handleTouchEnd(gs, t, cv) ==
    IF ~gs.isTouching THEN gs
    ELSE LET g1 == [gs EXCEPT !.isTouching = FALSE]
         IN IF g1.isPulling /\ g1.canLaunch THEN ReleasePull(g1, t, cv) ELSE g1

handleMouseDown(gs, p, t) ==
    IF PullStarts(gs, p)
    THEN [gs EXCEPT !.isTouching = TRUE, !.pullStart = p,
                    !.pullStartTime = t, !.isPulling = TRUE]
    ELSE gs

handleMouseMove(gs, p, cv) ==
    IF ~gs.isTouching \/ ~gs.isPulling THEN gs
    ELSE updatePullForce([gs EXCEPT !.pullEnd = p], cv)

handleMouseUp(gs, t, cv) ==
    IF ~gs.isTouching THEN gs
    ELSE LET g1 == [gs EXCEPT !.isTouching = FALSE]
         IN IF g1.isPulling /\ g1.canLaunch THEN ReleasePull(g1, t, cv) ELSE g1

\* ------------------------------------------------------ hand tracking
\* A result of the hand tracker is [kind, center]:
\*   "none"   no hand in the frame
\*   "other"  hands, none of them the controlling one
\*   "open"   the controlling hand, thumb and index apart, at center
\*   "pinch"  the controlling hand, thumb and index closer than 0.10
\* center is the cv point computed from the thumb and index tips.

\* lines 731-736 and 739-744: the controlling hand is not in the frame
HandLost(gs) ==
    LET g1 == [gs EXCEPT !.isPinching = FALSE]
        g2 == IF g1.isPulling /\ g1.canLaunch THEN launchBird(g1) ELSE g1
    IN [g2 EXCEPT !.isPulling = FALSE]

\* lines 856-869
PinchHeld(gs, center, t, cv) ==
    IF gs.canLaunch /\ ~gs.currentBird.isNull
    THEN LET g1 == IF ~gs.isPulling
                   THEN [gs EXCEPT !.isPulling = TRUE, !.pullStart = center,
                                   !.pullStartTime = t]
                   ELSE gs
         IN updatePullForce([g1 EXCEPT !.pullEnd = center], cv)
    ELSE gs

\* lines 870-889
PinchOpen(gs, wasPinching, t, cv) ==
    IF wasPinching /\ gs.isPulling /\ gs.canLaunch
    THEN ReleasePull(gs, t, cv)
    ELSE IF gs.isPulling
    THEN resetBirdPosition([gs EXCEPT !.isPulling = FALSE, !.pullStartTime = NoTime],
                           cv)
    ELSE gs

\* the gesture detection that clears needsHandReset on any sample
detectPinchGestureNoGate(gs, isNowPinching, center, t, cv) ==
    LET wasPinching == gs.isPinching
        g1 == [gs EXCEPT !.needsHandReset = FALSE, !.isPinching = isNowPinching]
    IN IF g1.isPinching THEN PinchHeld(g1, center, t, cv)
       ELSE PinchOpen(g1, wasPinching, t, cv)

detectPinchGesture(gs, isNowPinching, center, t, cv) ==
    LET wasPinching == gs.isPinching
    IN IF gs.needsHandReset /\ isNowPinching THEN gs
       ELSE LET g1 == [gs EXCEPT !.needsHandReset = FALSE,
                                 !.isPinching = isNowPinching]
            IN IF g1.isPinching THEN PinchHeld(g1, center, t, cv)
               ELSE PinchOpen(g1, wasPinching, t, cv)

\* the result res starts a pull: the guards of lines 840-860
PinchStarts(gs, res) ==
    /\ res.kind = "pinch"
    /\ ~gs.needsHandReset
    /\ gs.canLaunch /\ ~gs.currentBird.isNull
    /\ ~gs.isPulling

onHandsResults(gs, res, t, cv) ==
    IF res.kind \in {"none", "other"} THEN HandLost(gs)
    ELSE detectPinchGesture(gs, res.kind = "pinch", res.center, t, cv)

\* ------------------------------------------------- levels and rounds
LevelData(levelNum) == LEVEL_DEFINITIONS[((levelNum - 1) % Len(LEVEL_DEFINITIONS)) + 1]

\* LEVEL_DEFINITIONS[levelIndex].birds || 5
StartingBirds(levelNum) == OrDefault(LevelData(levelNum).birds, 5)

\* the world that is left in place from one load to the next
KeptPhysicsWorld(cv) == physicsWorld

\* line 1035: physicsWorld = new PhysicsWorld(canvas.width, canvas.height)
NewPhysicsWorld(cv) == PhysicsWorld(cv.width, cv.height)

\* loadLevel: [gs, world]
loadLevel(gs, levelNum, cv) ==
    LET r == processLevel(NewPhysicsWorld(cv), LevelData(levelNum).objects)
    IN [gs |-> spawnBird([gs EXCEPT !.pigs = r.pigs, !.blocks = r.blocks,
                                    !.canLaunch = TRUE], cv),
        world |-> r.world]

startGame(gs, cv) ==
    loadLevel([gs EXCEPT !.isPlaying = TRUE, !.score = 0,
                         !.birdsLeft = StartingBirds(gs.level)],
              gs.level, cv)

restartGame(gs, cv) ==
    LET r == loadLevel([gs EXCEPT !.score = 0, !.birdsLeft = StartingBirds(gs.level)],
                       gs.level, cv)
    IN [r EXCEPT !.gs.isPlaying = TRUE]

\* a level advance that starts the score again
nextLevelScoreReset(gs, cv) ==
    LET r == loadLevel([gs EXCEPT !.level = @ + 1, !.score = 0,
                                  !.birdsLeft = StartingBirds(gs.level + 1)],
                       gs.level + 1, cv)
    IN [r EXCEPT !.gs.isPlaying = TRUE]

nextLevel(gs, cv) ==
    LET r == loadLevel([gs EXCEPT !.level = @ + 1,
                                  !.birdsLeft = StartingBirds(gs.level + 1)],
                       gs.level + 1, cv)
    IN [r EXCEPT !.gs.isPlaying = TRUE]

\* an end of the round that does not mark the level as passed
levelCompleteUnmarked(gs) == [gs EXCEPT !.isPlaying = FALSE]

levelComplete(gs) == [gs EXCEPT !.isPlaying = FALSE, !.levelPassed = TRUE]

\* an end of the round that marks the level as passed
gameOverPassed(gs) == [gs EXCEPT !.isPlaying = FALSE, !.levelPassed = TRUE]

gameOver(gs) == [gs EXCEPT !.isPlaying = FALSE, !.levelPassed = FALSE]

\* a round evaluation that spawns a bird whatever birdsLeft is
RoundEvaluationSpawnsAtZero(gs, cv) ==
    IF Len(gs.pigs) = 0 THEN levelComplete(gs)
    ELSE spawnBird(gs, cv)

\* the callback birdStopped hands to setTimeout (lines 1167-1171)
RoundEvaluation(gs, cv) ==
    IF Len(gs.pigs) = 0 THEN levelComplete(gs)
    ELSE IF gs.birdsLeft <= 0 THEN gameOver(gs)
    ELSE spawnBird(gs, cv)

\* ------------------------------------------------------- environment
\* the canvas of the game runs (a small window: a bird dropped from the
\* slingshot is on the ground at once)
GameCanvas == [width |-> 200, height |-> 110]

\* where pointers and hands are seen, as pixel offsets from the slingshot
PullOffsets == {<<0, 0>>, <<105, 100>>}

InputPoints(cv) ==
    {Point(SlingshotX(cv) + Px(o[1]), SlingshotY(cv) + Px(o[2])) : o \in PullOffsets}

HandResults(cv) ==
    {[kind |-> k, center |-> NoPoint] : k \in {"none", "other"}}
    \cup {[kind |-> k, center |-> p] : k \in {"open", "pinch"}, p \in InputPoints(cv)}

ClockStep == minPullDuration

IdlePlacing ==
    [objects |-> << >>, i |-> 1, pigs |-> << >>, blocks |-> << >>,
     done |-> FALSE, runs |-> 0, first |-> << >>]

\* the page after init() has registered the handlers and called gameLoop()
PageLoaded(cv) ==
    /\ gameState = InitialGameState
    /\ canvas = cv
    /\ now = 0
    /\ timers = 0
    /\ loop = [pc |-> "raf", delivered |-> FALSE]
    /\ ui = [started |-> FALSE, modal |-> FALSE, modalNext |-> FALSE]
    /\ steps = 0
    /\ removed = << >>
    /\ scored = << >>
    /\ physicsWorld = PhysicsWorld(cv.width, cv.height)
    /\ placing = IdlePlacing
    /\ aim = [pointer |-> NoTime, pinch |-> NoTime]

Init == PageLoaded(GameCanvas)

\* ------------------------------------------------------------- actions
\* an input handler: only gameState changes
Handler(gs) ==
    /\ gameState' = gs
    /\ UNCHANGED <<canvas, now, timers, loop, ui, steps, removed, scored,
                   physicsWorld, placing>>

\* the timeout of updateLoadProgress (lines 442-445)
LoadingDone ==
    /\ ~gameState.isLoaded
    /\ Handler([gameState EXCEPT !.isLoaded = TRUE])
    /\ UNCHANGED aim

\* initCamera: the camera is granted and the game starts (lines 675-679)
CameraGranted ==
    /\ ~gameState.isCameraActive
    /\ LET r == startGame([gameState EXCEPT !.isCameraActive = TRUE], canvas)
       IN /\ gameState' = r.gs
          /\ physicsWorld' = r.world
    /\ ui' = [ui EXCEPT !.started = TRUE]
    /\ removed' = << >>
    /\ scored' = << >>
    /\ UNCHANGED <<canvas, now, timers, loop, steps, placing, aim>>

\* time passes.  The clock is read at a pull start and at a release only,
\* and only the difference of the two readings is used: the model lets time
\* pass during a pull.
AdvanceClock ==
    /\ gameState.isPulling
    /\ now < MaxClock * ClockStep
    /\ now' = now + ClockStep
    /\ UNCHANGED <<gameState, canvas, timers, loop, ui, steps, removed, scored,
                   physicsWorld, placing, aim>>

\* the pointer goes down at p: a pull starts if the handler takes it
PointerDown(gs, p) ==
    /\ Handler(gs)
    /\ aim' = IF PullStarts(gameState, p) THEN [aim EXCEPT !.pointer = now] ELSE aim

\* the pointer goes up
PointerUp(gs) ==
    /\ Handler(gs)
    /\ aim' = [aim EXCEPT !.pointer = NoTime]

TouchStart == \E p \in InputPoints(canvas) : PointerDown(handleTouchStart(gameState, p, now), p)

TouchMove ==
    /\ \E p \in InputPoints(canvas) : Handler(handleTouchMove(gameState, p, canvas))
    /\ UNCHANGED aim

\* touchend and touchcancel
TouchEnd == PointerUp(handleTouchEnd(gameState, now, canvas))

MouseDown == \E p \in InputPoints(canvas) : PointerDown(handleMouseDown(gameState, p, now), p)

MouseMove ==
    /\ \E p \in InputPoints(canvas) : Handler(handleMouseMove(gameState, p, canvas))
    /\ UNCHANGED aim

\* mouseup and mouseleave
MouseUp == PointerUp(handleMouseUp(gameState, now, canvas))

\* gameLoop (lines 1584-1586), the part after the await, on gameState with
\* the timers and the round's log
FrameRest(prune) ==
    IF gameState.isPlaying
    THEN updatePhysics(gameState @@ [timers |-> timers, removed |-> removed,
                                     scored |-> scored], canvas, prune)
    ELSE gameState @@ [timers |-> timers, removed |-> removed, scored |-> scored]

RunFrameRest ==
    \E prune \in BOOLEAN :
        \E r \in {FrameRest(prune)} :
           /\ gameState' = [f \in DOMAIN gameState |-> r[f]]
           /\ timers' = r.timers
           /\ removed' = r.removed
           /\ scored' = r.scored
           /\ steps' = IF gameState.isPlaying THEN steps + 1 ELSE steps

\* the frames of a run are bounded, and so are the pending timeouts
MayStartFrame(maxSteps) == steps < maxSteps /\ timers < 2

\* requestAnimationFrame calls gameLoop: it runs to the await of hands.send,
\* or to its end when there is nothing to await
FrameStart ==
    /\ loop.pc = "raf"
    /\ MayStartFrame(MaxSteps)
    /\ gameState.isLoaded
    /\ IF gameState.isCameraActive
       THEN /\ loop' = [pc |-> "send", delivered |-> FALSE]
            /\ UNCHANGED <<gameState, timers, removed, scored, steps>>
       ELSE /\ RunFrameRest
            /\ UNCHANGED loop
    /\ UNCHANGED <<canvas, now, ui, physicsWorld, placing, aim>>

\* hands.send calls back onHandsResults with the result res of the frame
HandsResultOf(res) ==
    /\ loop.pc = "send"
    /\ ~loop.delivered
    /\ gameState' = onHandsResults(gameState, res, now, canvas)
    /\ loop' = [loop EXCEPT !.delivered = TRUE]
    /\ aim' = [aim EXCEPT !.pinch = IF ~gameState'.isPinching THEN NoTime
                                    ELSE IF PinchStarts(gameState, res) THEN now
                                    ELSE @]
    /\ UNCHANGED <<canvas, now, timers, ui, steps, removed, scored, physicsWorld, placing>>

HandsResult == \E res \in HandResults(canvas) : HandsResultOf(res)

\* a frame that runs its physics step and stays at its await
FrameEndAwaiting ==
    /\ loop.pc = "send"
    /\ loop.delivered
    /\ MayStartFrame(MaxSteps)
    /\ RunFrameRest
    /\ UNCHANGED <<canvas, now, loop, ui, physicsWorld, placing, aim>>

\* hands.send resolves: gameLoop runs to its end and asks for the next frame
FrameEnd ==
    /\ loop.pc = "send"
    /\ loop.delivered
    /\ RunFrameRest
    /\ loop' = [pc |-> "raf", delivered |-> FALSE]
    /\ UNCHANGED <<canvas, now, ui, physicsWorld, placing, aim>>

\* hands.send rejects: the await throws, gameLoop ends at line 1582 and
\* requestAnimationFrame (line 1588) is not reached
SendFails ==
    /\ loop.pc = "send"
    /\ loop' = [pc |-> "ended", delivered |-> loop.delivered]
    /\ UNCHANGED <<gameState, canvas, now, timers, ui, steps, removed, scored,
                   physicsWorld, placing, aim>>

\* a timeout of birdStopped fires
EvaluateRound ==
    /\ timers > 0
    /\ timers' = timers - 1
    /\ gameState' = RoundEvaluation(gameState, canvas)
    /\ ui' = IF Len(gameState.pigs) = 0
             THEN [ui EXCEPT !.modal = TRUE, !.modalNext = TRUE]
             ELSE IF gameState.birdsLeft <= 0
             THEN [ui EXCEPT !.modal = TRUE, !.modalNext = FALSE]
             ELSE ui
    /\ UNCHANGED <<canvas, now, loop, steps, removed, scored, physicsWorld, placing, aim>>

\* restartGame or nextLevel as a click or key handler: a new round
NewRound(r) ==
    /\ gameState' = r.gs
    /\ physicsWorld' = r.world
    /\ ui' = [ui EXCEPT !.modal = FALSE]
    /\ removed' = << >>
    /\ scored' = << >>
    /\ aim' = [pointer |-> NoTime, pinch |-> NoTime]
    /\ UNCHANGED <<canvas, now, timers, loop, steps, placing>>

\* restartBtn, shown by startGame
ClickRestart ==
    /\ ui.started
    /\ NewRound(restartGame(gameState, canvas))

\* retryBtn, in the modal
ClickRetry ==
    /\ ui.modal
    /\ NewRound(restartGame(gameState, canvas))

\* nextBtn: the script never hides or shows it; taken to be usable, like
\* restartBtn, once the game has started
ClickNext ==
    /\ ui.started
    /\ gameState.level < MaxLevel
    /\ NewRound(nextLevel(gameState, canvas))

\* modalNextBtn, in the modal
ClickModalNext ==
    /\ ui.modal /\ ui.modalNext
    /\ gameState.level < MaxLevel
    /\ NewRound(nextLevel(gameState, canvas))

\* the Space key (lines 1629-1638)
KeySpace ==
    /\ ui.modal
    /\ gameState.levelPassed => gameState.level < MaxLevel
    /\ NewRound(IF gameState.levelPassed THEN nextLevel(gameState, canvas)
                ELSE restartGame(gameState, canvas))

\* ------------------------------------------------------- specification
\* The game: the page, the camera, the pointer and hand input, the frames,
\* the deferred round evaluation and the restart button.
Next ==
    \/ LoadingDone \/ CameraGranted \/ AdvanceClock
    \/ TouchStart \/ TouchMove \/ TouchEnd
    \/ MouseDown \/ MouseMove \/ MouseUp
    \/ FrameStart \/ HandsResult \/ FrameEnd
    \/ EvaluateRound
    \/ ClickRestart

Spec == Init /\ [][Next]_vars

\* ------------------------------------------------- the aim-duration gate
\* a pull is active
ActivePull == gameState.isPulling /\ gameState.canLaunch

\* the bird on the slingshot has not flown
Unlaunched(gs) == ~gs.currentBird.isNull /\ ~gs.currentBird.isLaunched

\* this step makes the bird fly and takes one bird from birdsLeft
Launches ==
    /\ Unlaunched(gameState)
    /\ ~gameState'.currentBird.isNull /\ gameState'.currentBird.isLaunched
    /\ gameState'.birdsLeft = gameState.birdsLeft - 1

\* this step lifts the pointer that is down (touch end or cancel, mouse up
\* or leave)
PointerRelease == gameState.isTouching /\ (TouchEnd \/ MouseUp)

\* this step is the result that shows the pinching hand open
PinchRelease ==
    /\ gameState.isPinching
    /\ \E p \in InputPoints(canvas) : HandsResultOf([kind |-> "open", center |-> p])

\* this step cancels the shot
CancelsShot ==
    /\ Unlaunched(gameState')
    /\ gameState'.currentBird.x = SlingshotX(canvas)
    /\ gameState'.currentBird.y = SlingshotY(canvas)
    /\ gameState'.currentBird.vx = 0 /\ gameState'.currentBird.vy = 0
    /\ ~gameState'.isPulling
    /\ gameState'.pullStartTime = NoTime
    /\ gameState'.birdsLeft = gameState.birdsLeft
    /\ gameState'.score = gameState.score
    /\ gameState'.pigs = gameState.pigs
    /\ gameState'.blocks = gameState.blocks

\* C1: a step that ends an active pull less than minPullDuration after the
\* pull started does not make the bird fly and does not lower birdsLeft.
C1_NeverEarly ==
    [][(/\ ActivePull
        /\ PullDuration(gameState, now) < minPullDuration
        /\ ~gameState'.isPulling)
       => (/\ gameState'.currentBird.isNull \/ ~gameState'.currentBird.isLaunched
           /\ gameState'.birdsLeft >= gameState.birdsLeft)]_vars

\* C2: a release (pointer up, pinching hand open) of an active pull at or
\* after minPullDuration since the pull started makes the bird fly and takes
\* exactly one bird from birdsLeft.
C2_LateReleaseOfActivePullLaunches ==
    [][((PointerRelease \/ PinchRelease)
        /\ ActivePull
        /\ PullDuration(gameState, now) >= minPullDuration)
       => Launches]_vars

\* C2 as stated: with the bird still on the slingshot, the release of a
\* pull that was started, at or after minPullDuration since its start,
\* launches whatever came in between.
C2_LateReleaseLaunches ==
    [][(/\ Unlaunched(gameState)
        /\ \/ PointerRelease /\ aim.pointer # NoTime
                              /\ now - aim.pointer >= minPullDuration
           \/ PinchRelease /\ aim.pinch # NoTime
                            /\ now - aim.pinch >= minPullDuration)
       => Launches]_vars

\* a pointer pull was released on time with a pinch seen in between: one
\* result, a pinch, has come in, and one bird has gone
C2_Witness ==
    /\ steps = 0 /\ loop = [pc |-> "send", delivered |-> TRUE]
    /\ gameState.isPinching
    /\ aim.pointer = NoTime
    /\ now >= minPullDuration
    /\ ~gameState.currentBird.isNull /\ gameState.currentBird.isLaunched
    /\ gameState.birdsLeft = StartingBirds(gameState.level) - 1

\* C3: a release of an active pull before minPullDuration leaves the bird
\* on the slingshot rest position, not launched, with velocity (0, 0),
\* isPulling false, pullStartTime null, and birdsLeft, score, pigs and
\* blocks as they were.
C3_EarlyReleaseCancels ==
    [][((PointerRelease \/ PinchRelease)
        /\ ActivePull
        /\ PullDuration(gameState, now) < minPullDuration)
       => CancelsShot]_vars

\* a pointer pull that had moved the bird was released early: no hand
\* result has come in, so the cancelled pull ended at the pointer's release
C3_Witness ==
    /\ ui.started /\ steps = 0 /\ loop.pc = "raf"
    /\ aim.pointer = NoTime
    /\ ~gameState.isPulling /\ gameState.pullStartTime = NoTime
    /\ ~gameState.pullEnd.isNull /\ gameState.pullEnd # gameState.pullStart
    /\ Unlaunched(gameState)
    /\ gameState.currentBird.x = SlingshotX(canvas)
    /\ gameState.currentBird.y = SlingshotY(canvas)
    /\ gameState.birdsLeft = StartingBirds(gameState.level)

\* ------------------------------------------------------------ flights
\* The flights: the game on a canvas where the structure is a few steps
\* from the slingshot, shots taken with the mouse, and whole frames.
FlightCanvas == [width |-> 400, height |-> 300]

\* the pull vectors of the shots, in pixels
FlightPulls == {<<0, 0>>, <<140, -30>>, <<140, 40>>, <<40, 5>>, <<-100, 0>>}

FlightInit == PageLoaded(FlightCanvas)

\* a shot: the mouse goes down on the bird, moves by the pull vector, is
\* held for the aim duration and goes up
Shot ==
    /\ Unlaunched(gameState) /\ gameState.canLaunch /\ ~gameState.isTouching
    /\ \E v \in FlightPulls :
         LET from == Point(SlingshotX(canvas), SlingshotY(canvas))
             to == Point(from.x + Px(v[1]), from.y + Px(v[2]))
             down == handleMouseDown(gameState, from, now)
             moved == handleMouseMove(down, to, canvas)
         IN gameState' = handleMouseUp(moved, now + minPullDuration, canvas)
    /\ now' = now + minPullDuration
    /\ UNCHANGED <<canvas, timers, loop, ui, steps, removed, scored, physicsWorld,
                   placing, aim>>

\* a whole call of gameLoop: hands.send reports no hand while no pull is
\* active (onHandsResults changes nothing), then updatePhysics, then the
\* request of the next frame
FlightFrame ==
    /\ loop.pc = "raf"
    /\ MayStartFrame(MaxFlightSteps)
    /\ gameState.isCameraActive /\ gameState.isPlaying
    /\ HandLost(gameState) = gameState
    /\ RunFrameRest
    /\ UNCHANGED <<canvas, now, loop, ui, physicsWorld, placing, aim>>

FlightNext ==
    \/ LoadingDone \/ CameraGranted
    \/ Shot \/ FlightFrame
    \/ EvaluateRound

FlightSpec == FlightInit /\ [][FlightNext]_vars

\* the ids of the bodies in a list
Ids(bodies) == {bodies[k].id : k \in 1..Len(bodies)}

RECURSIVE SumPoints(_)
SumPoints(log) == IF log = << >> THEN 0 ELSE Head(log).points + SumPoints(Tail(log))

\* C4: over the physics steps of a round every body is either in its list
\* with health left or was removed, once, in the step that used up its
\* health; each removal made one score increment, of 500 for a pig and 100
\* for a block, and nothing else changed the score.
C4_SingleRemovalSingleScore ==
    ui.started =>
        /\ \A k \in 1..Len(gameState.pigs) : gameState.pigs[k].health > 0
        /\ \A k \in 1..Len(gameState.blocks) : gameState.blocks[k].health > 0
        /\ \A j, k \in 1..Len(removed) : j # k => removed[j] # removed[k]
        /\ Ids(gameState.pigs) \cap Ids(gameState.blocks) = {}
        /\ Cardinality(Ids(gameState.pigs)) = Len(gameState.pigs)
        /\ Cardinality(Ids(gameState.blocks)) = Len(gameState.blocks)
        /\ {removed[k] : k \in 1..Len(removed)}
             \cap (Ids(gameState.pigs) \cup Ids(gameState.blocks)) = {}
        /\ {removed[k] : k \in 1..Len(removed)}
             \cup Ids(gameState.pigs) \cup Ids(gameState.blocks)
             = 1..Len(LevelData(gameState.level).objects)
        /\ Len(scored) = Len(removed)
        /\ \A k \in 1..Len(scored) :
              /\ scored[k].id = removed[k]
              /\ scored[k].points
                   = IF LevelData(gameState.level).objects[removed[k]].type = "pig"
                     THEN 500 ELSE 100
        /\ gameState.score = SumPoints(scored)

\* a pig and a block have been removed, and a block that was hit is still
\* in its list
C4_Witness ==
    /\ \E k \in 1..Len(scored) : scored[k].points = 500
    /\ \E k \in 1..Len(scored) : scored[k].points = 100
    /\ \E k \in 1..Len(gameState.blocks) :
          gameState.blocks[k].health
            < (IF gameState.blocks[k].type = "stone" THEN Px(100) ELSE Px(50))

\* ----------------------------------------------------------- placement
\* The placement: processLevel, one descriptor at a time, on the world that
\* loadLevel makes for it, and again on a new world at the next load.
PlaceCanvases == {[width |-> 1000, height |-> 800], [width |-> 400, height |-> 300]}

\* descriptors for the lists besides the shipped ones: spans that touch at
\* an edge (the beams, on the wide canvas), spans that intersect, and every
\* kind with a dimension missing
Palette ==
    {Pillar(20, "wood", 0), Beam(25, "wood", 100), Beam(35, "", 0),
     Pig(25, 22), Pig(30, 0), Block(30, "stone", 0, 20)}

ShippedLists == {LEVEL_DEFINITIONS[k].objects : k \in 1..Len(LEVEL_DEFINITIONS)}

PlaceInputs == ShippedLists \cup UNION {[1..n -> Palette] : n \in 1..MaxObjects}

PlaceInit ==
    \E cv \in PlaceCanvases, objects \in PlaceInputs :
        /\ gameState = InitialGameState
        /\ canvas = cv
        /\ now = 0
        /\ timers = 0
        /\ loop = [pc |-> "raf", delivered |-> FALSE]
        /\ ui = [started |-> FALSE, modal |-> FALSE, modalNext |-> FALSE]
        /\ steps = 0
        /\ removed = << >>
        /\ scored = << >>
        /\ physicsWorld = PhysicsWorld(cv.width, cv.height)
        /\ placing = [IdlePlacing EXCEPT !.objects = objects]
        /\ aim = [pointer |-> NoTime, pinch |-> NoTime]

\* one iteration of processLevel's loop (lines 409-426)
PlaceStep ==
    /\ ~placing.done
    /\ placing.i <= Len(placing.objects)
    /\ \E st \in {ProcessOne([world |-> physicsWorld, pigs |-> placing.pigs,
                                blocks |-> placing.blocks],
                               placing.objects[placing.i], placing.i)} :
         /\ physicsWorld' = st.world
         /\ placing' = [placing EXCEPT !.pigs = st.pigs, !.blocks = st.blocks,
                                       !.i = @ + 1]
    /\ UNCHANGED <<gameState, canvas, now, timers, loop, ui, steps, removed, scored, aim>>

\* processLevel returns { pigs, blocks } (line 428)
PlaceReturn ==
    /\ ~placing.done
    /\ placing.i > Len(placing.objects)
    /\ placing' = [placing EXCEPT
                     !.done = TRUE,
                     !.runs = @ + 1,
                     !.first = IF placing.runs = 0
                               THEN [pigs |-> placing.pigs, blocks |-> placing.blocks]
                               ELSE @]
    /\ UNCHANGED <<gameState, canvas, now, timers, loop, ui, steps, removed, scored,
                   physicsWorld, aim>>

\* the next load of the same list: a new world, and processLevel from the
\* start (lines 1035-1036)
PlaceAgain ==
    /\ placing.done
    /\ placing.runs < MaxRuns
    /\ physicsWorld' = NewPhysicsWorld(canvas)
    /\ placing' = [placing EXCEPT !.i = 1, !.pigs = << >>, !.blocks = << >>,
                                  !.done = FALSE]
    /\ UNCHANGED <<gameState, canvas, now, timers, loop, ui, steps, removed, scored, aim>>

PlaceNext == PlaceStep \/ PlaceReturn \/ PlaceAgain

PlaceSpec == PlaceInit /\ [][PlaceNext]_vars

\* the bodies placed so far, by descriptor index
Placed == 1..(placing.i - 1)

PlacedBody(id) ==
    IF \E k \in 1..Len(placing.pigs) : placing.pigs[k].id = id
    THEN LET pig == placing.pigs[CHOOSE k \in 1..Len(placing.pigs) :
                                   placing.pigs[k].id = id]
         IN [kind |-> "pig", x |-> pig.x, y |-> pig.y,
             width |-> 2 * pig.radius, height |-> 2 * pig.radius]
    ELSE LET block == placing.blocks[CHOOSE k \in 1..Len(placing.blocks) :
                                       placing.blocks[k].id = id]
         IN [kind |-> "block", x |-> block.x, y |-> block.y,
             width |-> block.width, height |-> block.height]

\* the extents of a placed body, from its centre and its size
Left(id) == PlacedBody(id).x - Trunc(PlacedBody(id).width, 2)
Right(id) == PlacedBody(id).x + Trunc(PlacedBody(id).width, 2)
Bottom(id) == PlacedBody(id).y + Trunc(PlacedBody(id).height, 2)
Top(id) == Bottom(id) - PlacedBody(id).height

\* the open horizontal intervals of two bodies intersect
XIntersect(j, k) == Right(k) > Left(j) /\ Left(k) < Right(j)

GroundY == Mul(Px(canvas.height), GROUND_Y_RATIO)

\* the least of a set of numbers
Least(S) == CHOOSE m \in S : \A n \in S : m <= n

\* C5: on the 1000 by 800 canvas (ground at 680) the first shipped list puts
\* both pillars on the ground, the beam on the pillars (bottom 600), the pig
\* on the beam and the block on the pig.
C5_StackingExample ==
    (/\ canvas = [width |-> 1000, height |-> 800]
     /\ placing.objects = LEVEL_DEFINITIONS[1].objects
     /\ placing.done)
    => /\ GroundY = Px(680)
       /\ Bottom(1) = Px(680) /\ Bottom(2) = Px(680)
       /\ Top(1) = Px(600) /\ Top(2) = Px(600)
       /\ Bottom(3) = Px(600)
       /\ Bottom(4) = Top(3)
       /\ Bottom(5) = Top(4)
       /\ Len(placing.pigs) = 1 /\ Len(placing.blocks) = 4

\* C6: the bottom of every placed body is the least top among the bodies
\* placed before it whose open horizontal interval intersects its own, or
\* the ground if there is none; its vertical extent overlaps none of them.
C6_RestingRule ==
    \A k \in Placed :
        LET under == {j \in 1..(k - 1) : XIntersect(j, k)}
        IN /\ Bottom(k) = Least({GroundY} \cup {Top(j) : j \in under})
           /\ \A j \in under : Bottom(k) <= Top(j) /\ Top(k) <= Bottom(k)

\* a list is placed in which two spans touch at an edge and both bodies are
\* on the ground, and a third body rests on one of them
C6_Witness ==
    /\ placing.done
    /\ \E j, k \in Placed :
          /\ j < k /\ Right(j) = Left(k)
          /\ Bottom(j) = GroundY /\ Bottom(k) = GroundY
    /\ \E j, k \in Placed : j < k /\ XIntersect(j, k) /\ Bottom(k) = Top(j)

\* C7 as stated: in the output for a shipped list, of two bodies whose
\* horizontal extents intersect one has its bottom at the other's top.
C7_PairsAdjacent ==
    (placing.done /\ placing.objects \in ShippedLists)
    => \A j, k \in Placed :
          (j # k /\ XIntersect(j, k)) => (Bottom(j) = Top(k) \/ Bottom(k) = Top(j))

\* C7: in the output for a shipped list, two bodies whose horizontal
\* extents intersect do not overlap vertically: one has its bottom at or
\* above the other's top.
C7_PairsDisjoint ==
    (placing.done /\ placing.objects \in ShippedLists)
    => \A j, k \in Placed :
          (j # k /\ XIntersect(j, k)) => (Bottom(j) <= Top(k) \/ Bottom(k) <= Top(j))

\* a shipped list is placed, and two of its bodies with intersecting
\* horizontal extents are apart, with a third body between them
C7_Witness ==
    /\ placing.done /\ placing.objects \in ShippedLists
    /\ \E j, k \in Placed : j # k /\ XIntersect(j, k) /\ Bottom(k) < Top(j)

\* C8: every call of processLevel on the same list and canvas returns the
\* pigs and blocks of the first call.
C8_Determinism ==
    placing.done =>
        (placing.pigs = placing.first.pigs /\ placing.blocks = placing.first.blocks)

\* a repeated call has returned for a list with a body resting on another
C8_Witness ==
    /\ placing.done /\ placing.runs >= 2
    /\ \E k \in Placed : Bottom(k) < GroundY

\* the descriptor misses the dimension its kind needs
Malformed(obj) ==
    \/ obj.type = "pig" /\ obj.radius = 0
    \/ obj.type = "pillar" /\ obj.height = 0
    \/ obj.type = "beam" /\ obj.width = 0
    \/ obj.type = "block" /\ (obj.width = 0 \/ obj.height = 0)

HasMalformed(objects) == \E k \in 1..Len(objects) : Malformed(objects[k])

SizeOrDefault(obj) ==
    IF obj.type = "pig"
    THEN LET r == IF obj.radius = 0 THEN 20 ELSE obj.radius
         IN [width |-> Px(2 * r), height |-> Px(2 * r)]
    ELSE IF obj.type = "pillar"
    THEN [width |-> Px(15), height |-> Px(IF obj.height = 0 THEN 80 ELSE obj.height)]
    ELSE IF obj.type = "beam"
    THEN [width |-> Px(IF obj.width = 0 THEN 100 ELSE obj.width), height |-> Px(15)]
    ELSE [width |-> Px(IF obj.width = 0 THEN 40 ELSE obj.width),
          height |-> Px(IF obj.height = 0 THEN 40 ELSE obj.height)]

LoopNext ==
    \/ LoadingDone \/ CameraGranted
    \/ Shot
    \/ FrameStart \/ HandsResult \/ FrameEnd \/ SendFails
    \/ EvaluateRound

LoopSpec == Init /\ [][LoopNext]_vars

\* gameLoop is at its await
FrameRunning == loop.pc = "send"

\* requestAnimationFrame holds a call of gameLoop
FrameScheduled == loop.pc = "raf"

\* C10: whatever hands.send does in a frame, gameLoop is still running or
\* its next call is scheduled: later frames come and advance the physics.
C10_LaterFramesScheduled == FrameRunning \/ FrameScheduled

\* ---------------------------------------------------------- the rounds
\* The rounds of a game: shots, whole frames, the deferred round
\* evaluation, the restart button at any time, and the controls of the
\* modal that restart the round or advance the level.
MaxRoundSteps == 8
MaxShots == 6

\* a low window, where a bird that is let go stops at once, and a narrow
\* one, where a bird shot through the pig leaves the bounds soon after
RoundCanvases == {[width |-> 200, height |-> 110], [width |-> 80, height |-> 600]}

\* a pull of nothing, which lets the bird go where it is, and a pull to
\* the left, which sends it to the right
RoundPulls == {<<0, 0>>, <<-120, 0>>}

RoundInit == \E cv \in RoundCanvases : PageLoaded(cv)

\* a pull of the mouse from the bird, held for minPullDuration and released
RoundShot ==
    /\ Unlaunched(gameState) /\ gameState.canLaunch /\ ~gameState.isTouching
    /\ now < MaxShots * minPullDuration
    /\ \E v \in RoundPulls :
         LET from == Point(SlingshotX(canvas), SlingshotY(canvas))
             to == Point(from.x + Px(v[1]), from.y + Px(v[2]))
             down == handleMouseDown(gameState, from, now)
             moved == handleMouseMove(down, to, canvas)
         IN gameState' = handleMouseUp(moved, now + minPullDuration, canvas)
    /\ now' = now + minPullDuration
    /\ UNCHANGED <<canvas, timers, loop, ui, steps, removed, scored, physicsWorld,
                   placing, aim>>

\* a whole frame of gameLoop with no hand in view
RoundFrame ==
    /\ loop.pc = "raf"
    /\ MayStartFrame(MaxRoundSteps)
    /\ gameState.isCameraActive /\ gameState.isPlaying
    /\ HandLost(gameState) = gameState
    /\ RunFrameRest
    /\ UNCHANGED <<canvas, now, loop, ui, physicsWorld, placing, aim>>

RoundNext ==
    \/ LoadingDone \/ CameraGranted
    \/ RoundShot \/ RoundFrame
    \/ EvaluateRound
    \/ ClickRestart \/ ClickRetry \/ ClickModalNext \/ KeySpace

RoundSpec == RoundInit /\ [][RoundNext]_vars

\* roundResult: levelComplete and gameOver end the round, restartGame and
\* nextLevel start the next one
Won == ui.started /\ ~gameState.isPlaying /\ gameState.levelPassed
Lost == ui.started /\ ~gameState.isPlaying /\ ~gameState.levelPassed
InProgress == ui.started /\ gameState.isPlaying

Flying == ~gameState.currentBird.isNull /\ gameState.currentBird.isLaunched

\* the round evaluation that birdStopped deferred has not run yet
EvaluationPending == timers > 0

\* C11 as stated: in every state of a round, the pig set is empty exactly
\* when the round is won.
C11_PigsEmptyIffWon == ui.started => (Len(gameState.pigs) = 0 <=> Won)

\* C11, amended: in every state of a round, a won round has no pig left, and
\* a round with no pig left is won as soon as the bird has stopped and the
\* deferred evaluation has run.
C11_WonIffPigsEmptyAndEvaluated ==
    ui.started =>
        /\ Won => Len(gameState.pigs) = 0
        /\ (Len(gameState.pigs) = 0 /\ ~Flying /\ ~EvaluationPending) => Won

\* the last pig was hit, the bird left the bounds and the evaluation ran
C11_Witness ==
    /\ Won
    /\ Len(gameState.pigs) = 0
    /\ Len(removed) > 0
    /\ ~EvaluationPending

\* C12 as stated: in every state of a round, the round is lost exactly when
\* birdsLeft is zero and the pig set is not empty.
C12_LostIffOutOfBirds ==
    ui.started => (Lost <=> (gameState.birdsLeft = 0 /\ Len(gameState.pigs) > 0))

\* C12, amended: in every state of a round, a lost round has no bird left and
\* a pig left, and a round with no bird left and a pig left is lost as soon
\* as the last bird has stopped and the deferred evaluation has run.
C12_LostIffOutOfBirdsAndEvaluated ==
    ui.started =>
        /\ gameState.birdsLeft >= 0
        /\ Lost => (gameState.birdsLeft = 0 /\ Len(gameState.pigs) > 0)
        /\ (gameState.birdsLeft = 0 /\ Len(gameState.pigs) > 0
                /\ ~Flying /\ ~EvaluationPending) => Lost

\* the last bird stopped with the pig alive and the evaluation ran
C12_Witness ==
    /\ Lost
    /\ gameState.birdsLeft = 0
    /\ Len(gameState.pigs) > 0
    /\ gameState.currentBird.isNull
    /\ ~EvaluationPending

\* ------------------------------------------------- the end of a round
\* A round that is played to its end: shots, frames and the deferred round
\* evaluation, with no restart and no level advance.  requestAnimationFrame
\* keeps calling gameLoop and a timeout that was set does fire: the frames
\* and the evaluation are weakly fair.  The frames of a run are bounded
\* while a pig is left or no bird flies; a bird that flies on after the
\* last pig has every frame it needs to stop.
LiveFrame ==
    /\ loop.pc = "raf"
    /\ MayStartFrame(MaxRoundSteps) \/ (Len(gameState.pigs) = 0 /\ Flying /\ timers < 2)
    /\ gameState.isCameraActive /\ gameState.isPlaying
    /\ HandLost(gameState) = gameState
    /\ RunFrameRest
    /\ UNCHANGED <<canvas, now, loop, ui, physicsWorld, placing, aim>>

LiveNext ==
    \/ LoadingDone \/ CameraGranted
    \/ RoundShot \/ LiveFrame
    \/ EvaluateRound

LiveSpec ==
    /\ RoundInit
    /\ [][LiveNext]_vars
    /\ WF_vars(LiveFrame)
    /\ WF_vars(EvaluateRound)

\* C13: once the pig set of a round in progress is empty, and frames keep
\* running with no restart and no level advance, the round is eventually
\* won: levelComplete runs, isPlaying is false and levelPassed is true.
C13_EmptyPigSetLeadsToWon == (InProgress /\ Len(gameState.pigs) = 0) ~> Won

\* the bird that removed the last pig went on, stopped, and the round was
\* evaluated as won
C13_Witness ==
    /\ Won
    /\ steps > 1
    /\ Len(scored) > 0
    /\ gameState.currentBird.isNull

\* ------------------------------------------------ the round evaluation
\* the step leaves the round won, with the bird as it was
EndsWon ==
    /\ ~gameState'.isPlaying /\ gameState'.levelPassed
    /\ gameState'.currentBird = gameState.currentBird

\* the step leaves the round lost, with the bird as it was
EndsLost ==
    /\ ~gameState'.isPlaying /\ ~gameState'.levelPassed
    /\ gameState'.currentBird = gameState.currentBird

\* the step puts a new bird on the slingshot and leaves the round's result
\* as it was
SpawnsBird ==
    /\ ~gameState'.currentBird.isNull
    /\ ~gameState'.currentBird.isLaunched
    /\ gameState'.currentBird.vx = 0 /\ gameState'.currentBird.vy = 0
    /\ gameState'.currentBird.x = SlingshotX(canvas)
    /\ gameState'.currentBird.y = SlingshotY(canvas)
    /\ gameState'.canLaunch
    /\ gameState'.isPlaying = gameState.isPlaying
    /\ gameState'.levelPassed = gameState.levelPassed

BecomesFlying == ~Flying /\ Flying'

\* this step ends the flight of the bird that flew
LeavesFlying == Flying /\ ~Flying'

\* this step is a physics step in which birdStopped dropped the bird
BirdStops == gameState'.currentBird.isNull /\ timers' > timers

\* a bird starts to fly only from an active pull, by a release
FliesOnlyByRelease ==
    BecomesFlying => (ActivePull /\ (PointerRelease \/ PinchRelease))

\* a flight ends only by birdStopped or by a restart or level advance
LeavesFlyingOnlyByStopOrRestart ==
    LeavesFlying => (BirdStops \/ ClickRestart \/ ClickRetry \/ ClickNext
                        \/ ClickModalNext \/ KeySpace)

\* the round evaluation leaves a flying bird alone
NoSpawnOverFlying ==
    (Flying /\ EvaluateRound) => gameState'.currentBird = gameState.currentBird

\* C15: over every interleaving of input events, frames, timeouts and
\* restarts, a bird becomes Flying only from an active pull by a release, a
\* Flying bird leaves that state only by stopping (slow ground bounce or
\* leaving the horizontal bounds) or by a restart or level advance, and no
\* spawn replaces a Flying bird.
C15_ProjectileStateMachine ==
    [][FliesOnlyByRelease /\ LeavesFlyingOnlyByStopOrRestart /\ NoSpawnOverFlying]_vars

\* -------------------------------------------------------- one projectile
\* gameState.currentBird is null or one bird object
OneBirdOrNone ==
    \/ gameState.currentBird = NoBird
    \/ /\ DOMAIN gameState.currentBird =
            {"isNull", "x", "y", "radius", "vx", "vy", "isLaunched"}
       /\ ~gameState.currentBird.isNull

\* the number of projectiles on the field
Projectiles(gs) == IF gs.currentBird.isNull THEN 0 ELSE 1

\* a physics step makes no bird: the bird after it, if there is one, is the
\* bird before it, flying as before; a bird that has not flown is left as
\* it is
StepAdvancesOneBird ==
    RoundFrame =>
        /\ Projectiles(gameState') <= Projectiles(gameState)
        /\ ~gameState'.currentBird.isNull =>
              /\ gameState'.currentBird.isLaunched = gameState.currentBird.isLaunched
              /\ gameState'.currentBird.radius = gameState.currentBird.radius
              /\ Unlaunched(gameState) => gameState'.currentBird = gameState.currentBird
              /\ Flying => /\ gameState'.currentBird.x - gameState.currentBird.x
                                = Mul(gameState.currentBird.vx, FRICTION)
                           /\ gameState'.birdsLeft = gameState.birdsLeft

\* C16: in every reachable state there is no projectile (currentBird is null)
\* or exactly one, and a physics step advances at most one projectile: it
\* moves the one bird that flies and makes no other.
C16_AtMostOneProjectile == []OneBirdOrNone /\ [][StepAdvancesOneBird]_vars

\* a physics step has moved the one bird that flies
C16_Witness ==
    /\ Flying
    /\ steps > 0
    /\ gameState.currentBird.x # SlingshotX(canvas)
    /\ Projectiles(gameState) = 1

\* ------------------------------------------- who changes the bodies
\* this step is a step of the started game that is not a physics step
OutsidePhysicsStep == ui.started /\ steps' = steps

\* the step leaves the pigs, the blocks and the particles as they are
KeepsPigsBlocksParticles ==
    /\ gameState'.pigs = gameState.pigs
    /\ gameState'.blocks = gameState.blocks
    /\ gameState'.particles = gameState.particles

\* the step leaves the position and the velocity of the bird, if there is
\* one before and after it, as they are
KeepsBirdMotion ==
    (~gameState.currentBird.isNull /\ ~gameState'.currentBird.isNull) =>
        /\ gameState'.currentBird.x = gameState.currentBird.x
        /\ gameState'.currentBird.y = gameState.currentBird.y
        /\ gameState'.currentBird.vx = gameState.currentBird.vx
        /\ gameState'.currentBird.vy = gameState.currentBird.vy

\* C17 as stated: in the started game, outside the physics step and a
\* restart aside, no input handler, gesture callback or timer changes the
\* position, velocity or health of any body: bird, pig, block or particle.
C17_BodiesChangeOnlyInSteps ==
    [][(OutsidePhysicsStep /\ ~ClickRestart) =>
            (KeepsPigsBlocksParticles /\ KeepsBirdMotion)]_vars

\* C17, amended: in the started game, outside the physics step and a
\* restart aside, no input handler, gesture callback or timer changes any
\* pig, block or particle, and no input handler or gesture callback changes
\* the position or the velocity of a bird that flies.  The bird on the slingshot is moved by
\* the pull handlers and is given its velocity by the launch.
C17_PigsBlocksChangeOnlyInSteps ==
    [][(OutsidePhysicsStep /\ ~ClickRestart) =>
            /\ KeepsPigsBlocksParticles
            /\ (Flying /\ ~EvaluateRound) => KeepsBirdMotion]_vars

\* between two physics steps a pull handler has moved the bird off the
\* slingshot position, with the pigs and blocks in place
C17_Witness ==
    /\ steps > 0
    /\ ActivePull /\ Unlaunched(gameState)
    /\ gameState.currentBird.x # SlingshotX(canvas)
    /\ Len(gameState.pigs) > 0 /\ Len(gameState.blocks) > 0

\* ------------------------------------------------ restart and advance
\* this step is restartGame or nextLevel, from a button or the Space key
RestartOrAdvance ==
    ClickRestart \/ ClickRetry \/ ClickNext \/ ClickModalNext \/ KeySpace

\* the pigs and blocks after the step are what placement gives for the
\* level: initial health, zero velocity
FreshPlacement ==
    LET fresh == processLevel(NewPhysicsWorld(canvas),
                              LevelData(gameState'.level).objects)
    IN /\ gameState'.pigs = fresh.pigs
       /\ gameState'.blocks = fresh.blocks

\* the bird after the step has not flown and is at rest on the slingshot
FreshBird ==
    /\ Unlaunched(gameState')
    /\ gameState'.currentBird.x = SlingshotX(canvas)
    /\ gameState'.currentBird.y = SlingshotY(canvas)
    /\ gameState'.currentBird.vx = 0 /\ gameState'.currentBird.vy = 0

\* C18: after restartGame or nextLevel the bodies are the fresh placement
\* output and one bird at rest that has not flown; no pig, block, bird or
\* particle of the round before is left; and the step is no part of a
\* physics step.
C18_RestartReplacesAllBodies ==
    [][RestartOrAdvance =>
          /\ FreshPlacement
          /\ FreshBird
          /\ gameState'.particles = 0
          /\ steps' = steps]_vars

\* -------------------------------------------- the arrangement at rest
\* what placement gives for the level that is loaded
PlacementOutput ==
    processLevel(NewPhysicsWorld(canvas), LevelData(gameState.level).objects)

\* no bird has touched a pig or a block since the level was loaded: every
\* placed body is there with the health placement gave it
NoImpactYet ==
    /\ Len(gameState.pigs) = Len(PlacementOutput.pigs)
    /\ Len(gameState.blocks) = Len(PlacementOutput.blocks)
    /\ \A k \in 1..Len(gameState.pigs) :
          gameState.pigs[k].health = PlacementOutput.pigs[k].health
    /\ \A k \in 1..Len(gameState.blocks) :
          gameState.blocks[k].health = PlacementOutput.blocks[k].health

\* every pig and block is where placement put it
AtPlacedPositions ==
    /\ \A k \in 1..Len(gameState.pigs) :
          /\ gameState.pigs[k].x = PlacementOutput.pigs[k].x
          /\ gameState.pigs[k].y = PlacementOutput.pigs[k].y
    /\ \A k \in 1..Len(gameState.blocks) :
          /\ gameState.blocks[k].x = PlacementOutput.blocks[k].x
          /\ gameState.blocks[k].y = PlacementOutput.blocks[k].y

\* C19: from the load of a level until the first contact of a bird with a
\* pig or a block, every physics step leaves every pig and block at the
\* position placement gave it.
C19_StaticUntilFirstImpact ==
    (ui.started /\ NoImpactYet) => AtPlacedPositions

\* ------------------------------------------------- the launch velocity
\* The aim: the page, the camera, a mouse press on the bird and the mouse
\* moved to the points of a grid over the canvas.
AimStep == 29

AimPoints(cv) ==
    {Point(Px(i * AimStep), Px(j * AimStep)) :
        i \in 0..(cv.width \div AimStep), j \in 0..(cv.height \div AimStep)}

AimMove ==
    /\ \E p \in AimPoints(canvas) : Handler(handleMouseMove(gameState, p, canvas))
    /\ UNCHANGED aim

AimNext == LoadingDone \/ CameraGranted \/ MouseDown \/ AimMove

AimSpec == PageLoaded(FlightCanvas) /\ [][AimNext]_vars

\* the pull vector of the pull that is held
PullDx == gameState.pullEnd.x - gameState.pullStart.x
PullDy == gameState.pullEnd.y - gameState.pullStart.y

\* -pull x 0.38
RawVx == -Mul(PullDx, LAUNCH_POWER_MULTIPLIER)
RawVy == -Mul(PullDy, LAUNCH_POWER_MULTIPLIER)
RawOverCap ==
    RawVx * RawVx + RawVy * RawVy > Px(MAX_LAUNCH_SPEED) * Px(MAX_LAUNCH_SPEED)

\* a pull is held and the mouse has moved
Aimed == ui.started /\ gameState.isPulling /\ ~gameState.pullEnd.isNull

\* the square of the launch speed
SpeedSq ==
    gameState.launchVelocity.x * gameState.launchVelocity.x
        + gameState.launchVelocity.y * gameState.launchVelocity.y

\* vx * pullDy - vy * pullDx: zero when the velocity is on the line of the
\* pull
Cross ==
    gameState.launchVelocity.x * PullDy - gameState.launchVelocity.y * PullDx

\* C20 as stated: for every pull vector the launch speed is at most
\* MAX_LAUNCH_SPEED; the velocity is -pull x 0.38 when that has speed at
\* most 55, and else has speed exactly 55; and it is exactly opposite to
\* the pull.
C20_LaunchSpeedCapExact ==
    Aimed =>
        /\ SpeedSq <= Px(MAX_LAUNCH_SPEED) * Px(MAX_LAUNCH_SPEED)
        /\ ~RawOverCap => gameState.launchVelocity = [x |-> RawVx, y |-> RawVy]
        /\ RawOverCap => SpeedSq = Px(MAX_LAUNCH_SPEED) * Px(MAX_LAUNCH_SPEED)
        /\ Cross = 0

\* C20, amended: for every pull vector the launch speed is at most
\* MAX_LAUNCH_SPEED up to the rounding of the arithmetic (one unit of the
\* last place); the velocity is -pull x 0.38 when that has speed at most
\* 55, and else is that velocity rescaled to speed 55 up to rounding; each
\* component has the sign opposite to the pull's, and the velocity is off
\* the line of the pull by no more than rounding.
C20_LaunchSpeedCapRounded ==
    Aimed =>
        /\ SpeedSq <= (Px(MAX_LAUNCH_SPEED) + 1) * (Px(MAX_LAUNCH_SPEED) + 1)
        /\ ~RawOverCap => gameState.launchVelocity = [x |-> RawVx, y |-> RawVy]
        /\ RawOverCap =>
              /\ SpeedSq >= (Px(MAX_LAUNCH_SPEED) - 2) * (Px(MAX_LAUNCH_SPEED) - 2)
              /\ Abs(gameState.launchVelocity.x) <= Abs(RawVx)
              /\ Abs(gameState.launchVelocity.y) <= Abs(RawVy)
        /\ gameState.launchVelocity.x * PullDx <= 0
        /\ gameState.launchVelocity.y * PullDy <= 0
        /\ Abs(Cross) <= 2 * (Abs(PullDx) + Abs(PullDy))

\* a pull whose raw speed is over the cap is held
C20_Witness ==
    /\ Aimed
    /\ RawOverCap
    /\ gameState.launchVelocity # [x |-> RawVx, y |-> RawVy]
    /\ PullDx # 0 /\ PullDy # 0

\* ------------------------------------------------ the trajectory preview
\* the preview that calculateTrajectory draws for the launch velocity held
Preview == calculateTrajectory(gameState, canvas).trajectory

\* the velocity of the preview loop at its i-th point
RECURSIVE PreviewVelocity(_, _, _)
PreviewVelocity(i, vx, vy) ==
    IF i = 0 THEN [x |-> vx, y |-> vy]
    ELSE CHOOSE r \in {[x |-> Mul(v.x, FRICTION),
                        y |-> Mul(v.y, FRICTION) + Mul(Px(1), GRAVITY)] :
                           v \in {PreviewVelocity(i - 1, vx, vy)}} : TRUE

\* the bird flies as launched, i steps after the launch, with nothing hit
\* and no ground touched: its velocity is the launch velocity after i
\* updates
FreeFlightAt(i) ==
    /\ Flying
    /\ [x |-> gameState.currentBird.vx, y |-> gameState.currentBird.vy]
          = PreviewVelocity(i, gameState.launchVelocity.x, gameState.launchVelocity.y)

\* C21: for a bird launched with the previewed velocity, the i-th point of
\* the preview is the bird's position after i physics steps, up to its
\* first collision or ground contact.
C21_PreviewEqualsFlight ==
    \A i \in 0..49 :
        (FreeFlightAt(i) /\ i < Len(Preview)) =>
            /\ Preview[i + 1].x = gameState.currentBird.x
            /\ Preview[i + 1].y = gameState.currentBird.y

\* the ground line of the canvas
GroundLine == Mul(Px(canvas.height), GROUND_Y_RATIO)

\* the preview is finite: at most 50 points
PreviewFinite == Len(gameState.trajectory) <= 50

\* no point of the preview is below the ground line or left of x = 0: the
\* loop breaks on the first step that goes there, before it pushes the point
PreviewStopsAtFirstExit ==
    \A k \in 1..Len(gameState.trajectory) :
        /\ gameState.trajectory[k].y <= GroundLine
        /\ gameState.trajectory[k].x >= 0

\* a preview shorter than 50 points ended because the step from its last
\* point goes below the ground line or left of x = 0
PreviewEndsOnExit ==
    LET n == Len(gameState.trajectory)
        last == gameState.trajectory[n]
        v == PreviewVelocity(n, gameState.launchVelocity.x, gameState.launchVelocity.y)
    IN (0 < n /\ n < 50) => (last.y + v.y > GroundLine \/ last.x + v.x < 0)

\* calculateTrajectory changes gameState.trajectory and nothing else
PreviewChangesOnlyTrajectory ==
    [calculateTrajectory(gameState, canvas) EXCEPT !.trajectory = gameState.trajectory]
        = gameState

\* C22: calculateTrajectory ends with at most 50 points, stops after the
\* first step that goes below the ground line or left of x = 0, and changes
\* only gameState.trajectory: no body, no score, no ammunition.
C22_PreviewFiniteAndFrameOnly ==
    /\ PreviewFinite
    /\ PreviewStopsAtFirstExit
    /\ PreviewEndsOnExit
    /\ PreviewChangesOnlyTrajectory

\* a pull is held whose preview left the canvas before its 50th point
C22_Witness ==
    /\ Aimed
    /\ Len(gameState.trajectory) \in 2..49
    /\ gameState.currentBird.x # SlingshotX(canvas)

\* ----------------------------------------------------------------- hits
\* The hits: a bird in flight next to pigs that lie on the ground, where the
\* pigs of a column end up once they have fallen, and whole frames.  One
\* step takes the bird to a position that misses a pig by one unit, touches
\* it, or overlaps it by one unit.
MaxHitSteps == 2
MaxPigs == 3

\* a pig of radius r px lying on the ground at x px
GroundPig(x, r, cv) ==
    [x |-> Px(x), y |-> Mul(Px(cv.height), GROUND_Y_RATIO) - Px(r), radius |-> Px(r),
     health |-> Px(r), vx |-> 0, vy |-> 0]

\* pigs that overlap, and a pig that touches the first one, with shipped radii
HitPigs(cv) ==
    {GroundPig(124, 18, cv), GroundPig(110, 16, cv), GroundPig(160, 18, cv)}

\* the lists of pigs, numbered as processLevel numbers them
HitPigLists(cv) ==
    UNION {{[k \in 1..n |-> s[k] @@ [id |-> k]] : s \in [1..n -> HitPigs(cv)]} :
              n \in 1..MaxPigs}

\* the bird before the step: one step of gravity above the point 24 px left
\* of and 32 px above the centre of the first pig, and one unit around it
HitBirds(cv) ==
    {[isNull |-> FALSE, x |-> Px(100),
      y |-> Mul(Px(cv.height), GROUND_Y_RATIO) - Px(18) - Px(32)
                - Mul(Px(1), GRAVITY) + d,
      radius |-> Px(22), vx |-> v, vy |-> 0, isLaunched |-> TRUE] :
        d \in {-1, 0, 1}, v \in {0, Px(10)}}

HitInit ==
    \E pigs \in HitPigLists(FlightCanvas), bird \in HitBirds(FlightCanvas) :
        LET r == startGame([InitialGameState EXCEPT !.isLoaded = TRUE,
                                                    !.isCameraActive = TRUE],
                           FlightCanvas)
            launched == launchBird(r.gs)
        IN /\ gameState = [launched EXCEPT !.currentBird = bird, !.pigs = pigs]
           /\ canvas = FlightCanvas
           /\ now = 0
           /\ timers = 0
           /\ loop = [pc |-> "raf", delivered |-> FALSE]
           /\ ui = [started |-> TRUE, modal |-> FALSE, modalNext |-> FALSE]
           /\ steps = 0
           /\ removed = << >>
           /\ scored = << >>
           /\ physicsWorld = r.world
           /\ placing = IdlePlacing
           /\ aim = [pointer |-> NoTime, pinch |-> NoTime]

\* a whole call of gameLoop, as in the flights
HitFrame ==
    /\ loop.pc = "raf"
    /\ MayStartFrame(MaxHitSteps)
    /\ gameState.isCameraActive /\ gameState.isPlaying
    /\ HandLost(gameState) = gameState
    /\ RunFrameRest
    /\ UNCHANGED <<canvas, now, loop, ui, physicsWorld, placing, aim>>

HitNext == HitFrame

HitSpec == HitInit /\ [][HitNext]_vars

\* the circles of the state: the bird and the pigs
Circles ==
    (IF gameState.currentBird.isNull THEN {} ELSE {gameState.currentBird})
        \cup {gameState.pigs[k] : k \in 1..Len(gameState.pigs)}

\* the square of the distance of the centres
DistSq(a, b) == (a.x - b.x) * (a.x - b.x) + (a.y - b.y) * (a.y - b.y)

\* C23: checkCircleCollision gives the same answer for (A, B) and (B, A); it
\* is true iff the distance of the centres is less than the sum of the
\* radii, and false for circles whose distance is the sum of the radii.
C23_CircleCollisionSymmetricStrict ==
    \A a \in Circles, b \in Circles :
        /\ checkCircleCollision(a, b) = checkCircleCollision(b, a)
        /\ checkCircleCollision(a, b) <=> ISqrt(DistSq(a, b)) < a.radius + b.radius
        /\ DistSq(a, b) = (a.radius + b.radius) * (a.radius + b.radius)
               => ~checkCircleCollision(a, b)

\* a step took the bird to where it touches a pig, and the pig was not hit
C23_Witness ==
    /\ steps > 0 /\ Flying
    /\ \E k \in 1..Len(gameState.pigs) :
          /\ DistSq(gameState.currentBird, gameState.pigs[k])
                = (Px(22) + gameState.pigs[k].radius) * (Px(22) + gameState.pigs[k].radius)
          /\ gameState.pigs[k].health = gameState.pigs[k].radius

\* ---------------------------------------------------------- star rating
\* The ends of won rounds: every shipped level with its last pig removed and
\* its blocks knocked out, the bird stopped, its round evaluation pending,
\* and every number of birds left that a round can end with.
StarInit ==
    \E cv \in RoundCanvases, level \in 1..Len(LEVEL_DEFINITIONS) :
        \E left \in 0..(StartingBirds(level) - 1) :
            /\ gameState = [InitialGameState EXCEPT
                                !.isLoaded = TRUE, !.isCameraActive = TRUE,
                                !.isPlaying = TRUE, !.level = level,
                                !.canLaunch = FALSE, !.needsHandReset = TRUE,
                                !.birdsLeft = left]
            /\ canvas = cv
            /\ now = 0
            /\ timers = 1
            /\ loop = [pc |-> "raf", delivered |-> FALSE]
            /\ ui = [started |-> TRUE, modal |-> FALSE, modalNext |-> FALSE]
            /\ steps = 0
            /\ removed = << >>
            /\ scored = << >>
            /\ physicsWorld = NewPhysicsWorld(cv)
            /\ placing = IdlePlacing
            /\ aim = [pointer |-> NoTime, pinch |-> NoTime]

StarNext == EvaluateRound

StarSpec == StarInit /\ [][StarNext]_vars

\* Math.ceil(n * num / den)
CeilOf(n, num, den) == (n * num + den - 1) \div den

\* lines 1225-1230: the stars levelComplete shows for the state
Stars(gs) ==
    LET totalBirds == StartingBirds(gs.level)
        usedBirds == totalBirds - gs.birdsLeft
    IN IF usedBirds <= CeilOf(totalBirds, 3, 10) THEN 3
       ELSE IF usedBirds <= CeilOf(totalBirds, 6, 10) THEN 2
       ELSE 1

\* the share of the level's birds that the round used is at most num/den
UsedAtMost(gs, num, den) ==
    (StartingBirds(gs.level) - gs.birdsLeft) * den <= StartingBirds(gs.level) * num

\* C24: a won round shows 3 stars iff the birds used are at most 30% of the
\* level's starting birds, 2 stars iff they are above 30% and at most 60%,
\* and 1 star otherwise.
C24_StarsByShareOfBirdsUsed ==
    Won =>
        /\ Stars(gameState) = 3 <=> UsedAtMost(gameState, 3, 10)
        /\ Stars(gameState) = 2 <=>
              (~UsedAtMost(gameState, 3, 10) /\ UsedAtMost(gameState, 6, 10))
        /\ Stars(gameState) = 1 <=> ~UsedAtMost(gameState, 6, 10)

\* ------------------------------------------------------------ the ticks
\* this step runs a physics step
PhysicsStepRuns == steps' # steps

\* this step starts a tick that goes to its await
TickStarts == loop.pc # "send" /\ loop'.pc = "send"

\* this step is a callback that runs while a tick is at its await
DuringAwait == loop.pc = "send" /\ loop'.pc = "send"

\* a tick starts only when the one before has run to its end and asked for
\* the next frame
StartsAfterCompletion == TickStarts => FrameScheduled

\* a physics step is the one step of a tick that runs to its end
OneStepPerTick ==
    PhysicsStepRuns =>
        /\ steps' = steps + 1
        /\ FrameRunning \/ FrameScheduled
        /\ loop'.pc = "raf"

\* no physics step runs in the callbacks that run during the await
NoStepDuringAwait == DuringAwait => ~PhysicsStepRuns

\* C25: a tick of gameLoop starts only after the tick before has completed
\* its physics step and asked for the next frame, also while hands.send is
\* pending and other callbacks run; a tick runs at most one physics step and
\* no two physics steps interleave.
C25_TicksNeverOverlap ==
    [][StartsAfterCompletion /\ OneStepPerTick /\ NoStepDuringAwait]_vars

\* a tick is at its await, a pointer callback has run in the meantime, and
\* ticks before it have run their physics steps
C25_Witness ==
    /\ FrameRunning
    /\ loop.delivered
    /\ gameState.isTouching
    /\ steps > 0

\* ------------------------------------------------------- hits of a step
\* the bird where the step tests it against the pigs: integrated, and put
\* back on the ground line if it went below
TestedBird ==
    LET b == Integrate(gameState.currentBird)
    IN IF b.y + b.radius > GroundLine THEN [b EXCEPT !.y = GroundLine - b.radius]
       ELSE b

\* the pig overlaps the bird at the tested position
Overlaps(pig) == ISqrt(DistSq(TestedBird, pig)) < TestedBird.radius + pig.radius

\* the number of entries of a removal log for the id
Occurrences(log, id) == Cardinality({k \in 1..Len(log) : log[k] = id})

\* the pig is in the list after the step with the health h
ListedWith(pig, h) ==
    \E j \in 1..Len(gameState'.pigs) :
        /\ gameState'.pigs[j].id = pig.id
        /\ gameState'.pigs[j].health = h
        /\ \A i \in 1..Len(gameState'.pigs) : gameState'.pigs[i].id = pig.id => i = j

\* the pig was taken from the list in this step, once
RemovedOnce(pig) ==
    /\ pig.id \notin Ids(gameState'.pigs)
    /\ Occurrences(removed', pig.id) = Occurrences(removed, pig.id) + 1

\* the step took 30 from the pig's health, and took the pig from the list
\* if that used the health up
HitOnce(pig) ==
    IF pig.health - Px(30) <= 0 THEN RemovedOnce(pig)
    ELSE ListedWith(pig, pig.health - Px(30))

\* C26: in one physics step every pig that overlaps the bird at its position
\* after the integration is hit once and loses 30 health, and every other
\* pig is left as it is, however many pigs the reverse pass removes.
C26_EveryOverlappingPigHitOnce ==
    [][(PhysicsStepRuns /\ Flying) =>
          /\ \A k \in 1..Len(gameState.pigs) :
                IF Overlaps(gameState.pigs[k]) THEN HitOnce(gameState.pigs[k])
                ELSE ListedWith(gameState.pigs[k], gameState.pigs[k].health)
          /\ Len(removed') - Len(removed)
                = Cardinality({k \in 1..Len(gameState.pigs) : Overlaps(gameState.pigs[k])})
          /\ gameState'.score - gameState.score = 500 * (Len(removed') - Len(removed))
      ]_vars

\* one step removed two pigs out of three, the first and the last of the list
C26_Witness ==
    /\ steps = 1
    /\ Len(removed) = 2
    /\ Len(gameState.pigs) = 1
    /\ gameState.pigs[1].id = 2

\* ------------------------------------------------------- touching edges
\* the horizontal intervals of two bodies meet at an endpoint and nowhere
\* else: newRight = spanLeft or newLeft = spanRight
Touches(j, k) == Right(k) = Left(j) \/ Left(k) = Right(j)

\* the levels a body can rest on: the ground, and the tops of the bodies
\* placed before it whose intervals intersect its own
RestLevels(k) == {GroundY} \cup {Top(i) : i \in {i \in 1..(k - 1) : XIntersect(i, k)}}

\* C27: a body whose horizontal interval only touches an earlier one at an
\* endpoint is not placed on it: it rests on the ground or on an earlier
\* body whose interval it intersects, at the highest of these.
C27_TouchingEdgesDoNotStack ==
    \A k \in Placed : \A j \in 1..(k - 1) :
        Touches(j, k) =>
            /\ ~XIntersect(j, k)
            /\ Bottom(k) \in RestLevels(k)
            /\ \A n \in RestLevels(k) : Bottom(k) <= n

\* a list is placed in which a body touches the edge of a higher body and
\* rests on a lower one that it intersects
C27_Witness ==
    /\ placing.done
    /\ \E k \in Placed : \E j \in 1..(k - 1) :
          /\ Left(k) = Right(j)
          /\ Top(j) < Bottom(k)
          /\ Bottom(k) < GroundY

\* --------------------------------------------------------------- score
\* The score runs: shots that remove a pig and a block of the first level,
\* whole frames, and the restart and next-level buttons at any time.
MaxScoreSteps == 6
MaxScoreShots == 2

\* a pull to the lower right, which sends the bird up and to the left,
\* through the structure
ScorePulls == {<<140, 40>>}

ScoreShot ==
    /\ Unlaunched(gameState) /\ gameState.canLaunch /\ ~gameState.isTouching
    /\ now < MaxScoreShots * minPullDuration
    /\ \E v \in ScorePulls :
         LET from == Point(SlingshotX(canvas), SlingshotY(canvas))
             to == Point(from.x + Px(v[1]), from.y + Px(v[2]))
             down == handleMouseDown(gameState, from, now)
             moved == handleMouseMove(down, to, canvas)
         IN gameState' = handleMouseUp(moved, now + minPullDuration, canvas)
    /\ now' = now + minPullDuration
    /\ UNCHANGED <<canvas, timers, loop, ui, steps, removed, scored, physicsWorld,
                   placing, aim>>

ScoreFrame ==
    /\ loop.pc = "raf"
    /\ MayStartFrame(MaxScoreSteps)
    /\ gameState.isCameraActive /\ gameState.isPlaying
    /\ HandLost(gameState) = gameState
    /\ RunFrameRest
    /\ UNCHANGED <<canvas, now, loop, ui, physicsWorld, placing, aim>>

ScoreNext ==
    \/ LoadingDone \/ CameraGranted
    \/ ScoreShot \/ ScoreFrame
    \/ ClickRestart \/ ClickNext

ScoreSpec == FlightInit /\ [][ScoreNext]_vars

\* the pigs and the blocks that this step took from the lists
PigsRemovedNow == Len(gameState.pigs) - Len(gameState'.pigs)
BlocksRemovedNow == Len(gameState.blocks) - Len(gameState'.blocks)

\* the pigs and the blocks removed in the round so far: those placed at the
\* load of the level that are not in the lists
PigsRemoved == Len(PlacementOutput.pigs) - Len(gameState.pigs)
BlocksRemoved == Len(PlacementOutput.blocks) - Len(gameState.blocks)

\* this step starts the game or restarts the round: the level is loaded
\* again with all its birds and the score is 0
ScoreReset ==
    /\ ~PhysicsStepRuns
    /\ gameState'.score = 0
    /\ gameState'.level = gameState.level
    /\ gameState'.isPlaying
    /\ gameState'.birdsLeft = StartingBirds(gameState.level)
    /\ gameState'.pigs = PlacementOutput.pigs
    /\ gameState'.blocks = PlacementOutput.blocks

\* this step advances to the next level
LevelAdvance == gameState'.level = gameState.level + 1

\* the score of a state of the first level, where no score is carried in
ScoreOfFirstLevel ==
    (ui.started /\ gameState.level = 1)
        => gameState.score = 500 * PigsRemoved + 100 * BlocksRemoved

\* the score carried into a later level stays under what the round adds
ScoreAtLeastRound ==
    ui.started => gameState.score >= 500 * PigsRemoved + 100 * BlocksRemoved

\* what a step does to the score
ScoreStep ==
    /\ PhysicsStepRuns =>
          gameState'.score = gameState.score + 500 * PigsRemovedNow + 100 * BlocksRemovedNow
    /\ (~PhysicsStepRuns /\ gameState'.score # gameState.score) => ScoreReset
    /\ LevelAdvance => gameState'.score = gameState.score

\* C28: the score is 500 for each pig removed and 100 for each block removed
\* since it was last set to 0; a step changes it by 500 for each pig and 100
\* for each block it removes, or sets it to 0 at a game start or restart,
\* and an advance to the next level keeps it.
C28_ScoreAccounting ==
    /\ [](ScoreOfFirstLevel /\ ScoreAtLeastRound)
    /\ [][ScoreStep]_vars

\* the second level is being played with the score of the first level,
\* which holds the 100 of a removed block
C28_Witness ==
    /\ InProgress
    /\ gameState.level = 2
    /\ gameState.score > 500 * PigsRemoved + 100 * BlocksRemoved
    /\ gameState.score % 500 # 0

\* ------------------------------------------------------------- health
\* every listed pig and block has health left
AllListedAlive ==
    /\ \A k \in 1..Len(gameState.pigs) : gameState.pigs[k].health > 0
    /\ \A k \in 1..Len(gameState.blocks) : gameState.blocks[k].health > 0

\* no body of the list after the step has more health than it had before
NoHealthGain(before, after) ==
    \A j \in 1..Len(after) : \A k \in 1..Len(before) :
        after[j].id = before[k].id => after[j].health <= before[k].health

\* every body of the list after the step was in the list before
NoneEnters(before, after) == Ids(after) \subseteq Ids(before)

\* C29: after every physics step every pig and block in the lists has
\* health above 0, and over a step the health of a body that stays listed
\* does not grow.
C29_NoDeadBodyListed ==
    /\ [](ui.started => AllListedAlive)
    /\ [][PhysicsStepRuns =>
             /\ NoHealthGain(gameState.pigs, gameState'.pigs)
             /\ NoHealthGain(gameState.blocks, gameState'.blocks)
             /\ NoneEnters(gameState.pigs, gameState'.pigs)
             /\ NoneEnters(gameState.blocks, gameState'.blocks)]_vars

\* steps have removed a pig and a block, and a block that was hit is listed
\* with less health than placement gave it
C29_Witness ==
    /\ steps > 0
    /\ PigsRemoved > 0 /\ BlocksRemoved > 0
    /\ \E k \in 1..Len(gameState.blocks) :
          /\ gameState.blocks[k].health > 0
          /\ gameState.blocks[k].health < Px(50)

\* ------------------------------------------------------- the ground line
\* no pig of the list is below the ground line
PigsOnOrAboveGround(pigs) ==
    \A k \in 1..Len(pigs) : pigs[k].y + pigs[k].radius <= GroundLine

\* no block of the list is below the ground line
BlocksOnOrAboveGround(blocks) ==
    \A k \in 1..Len(blocks) : blocks[k].y + Trunc(blocks[k].height, 2) <= GroundLine

\* a bird in flight is not below the ground line
BirdOnOrAboveGround(bird) ==
    (~bird.isNull /\ bird.isLaunched) => bird.y + bird.radius <= GroundLine

\* C30: at the end of every physics step no body is below the ground line:
\* every pig has y + radius <= groundY, every block y + height/2 <= groundY,
\* and a bird in flight y + radius <= groundY.
C30_GroundClamp ==
    [][PhysicsStepRuns =>
          /\ PigsOnOrAboveGround(gameState'.pigs)
          /\ BlocksOnOrAboveGround(gameState'.blocks)
          /\ BirdOnOrAboveGround(gameState'.currentBird)]_vars

\* a step has put the bird back on the ground line, from where it bounces
\* on, and blocks stand on the ground line
C30_Witness ==
    /\ steps > 0
    /\ Flying
    /\ gameState.currentBird.y + gameState.currentBird.radius = GroundLine
    /\ gameState.currentBird.vy < 0
    /\ \E k \in 1..Len(gameState.blocks) :
          gameState.blocks[k].y + Trunc(gameState.blocks[k].height, 2) = GroundLine

\* ------------------------------------------------------ flights that end
\* The flights to their end: shots on the
\* canvases of the rounds and of the flights, whole frames and the round
\* evaluation, with no restart and no level advance.  The frames are weakly
\* fair, as requestAnimationFrame calls gameLoop again after every call; a
\* bird that flies has every frame it needs, and the frames of a run are
\* bounded while no bird flies.
MaxEndShots == 2
MaxIdleSteps == 2

EndCanvases == RoundCanvases \cup {FlightCanvas}

EndInit == \E cv \in EndCanvases : PageLoaded(cv)

\* a pull of nothing, which drops the bird to the ground, a pull that sends
\* it through the structure, and a pull that sends it away from it
EndPulls == {<<0, 0>>, <<140, 40>>, <<-100, 0>>}

EndShot ==
    /\ Unlaunched(gameState) /\ gameState.canLaunch /\ ~gameState.isTouching
    /\ now < MaxEndShots * minPullDuration
    /\ \E v \in EndPulls :
         LET from == Point(SlingshotX(canvas), SlingshotY(canvas))
             to == Point(from.x + Px(v[1]), from.y + Px(v[2]))
             down == handleMouseDown(gameState, from, now)
             moved == handleMouseMove(down, to, canvas)
         IN gameState' = handleMouseUp(moved, now + minPullDuration, canvas)
    /\ now' = now + minPullDuration
    /\ UNCHANGED <<canvas, timers, loop, ui, steps, removed, scored, physicsWorld,
                   placing, aim>>

EndFrame ==
    /\ loop.pc = "raf"
    /\ Flying \/ MayStartFrame(MaxIdleSteps)
    /\ gameState.isCameraActive /\ gameState.isPlaying
    /\ HandLost(gameState) = gameState
    /\ RunFrameRest
    /\ UNCHANGED <<canvas, now, loop, ui, physicsWorld, placing, aim>>

EndNext ==
    \/ LoadingDone \/ CameraGranted
    \/ EndShot \/ EndFrame
    \/ EvaluateRound

EndSpec ==
    /\ EndInit
    /\ [][EndNext]_vars
    /\ WF_vars(EndFrame)

\* the bird has stopped: birdStopped has dropped it and set up the round
\* evaluation
Stopped == gameState.currentBird.isNull /\ EvaluationPending

LaunchStep == Unlaunched(gameState) /\ Flying'

\* this step sets birdsLeft to the starting birds of the level it loads
AmmoReset ==
    /\ gameState'.birdsLeft = StartingBirds(gameState'.level)
    /\ gameState'.isPlaying
    /\ FreshBird

\* birdsLeft is between 0 and the starting birds of the level
AmmoInBounds ==
    /\ 0 <= gameState.birdsLeft
    /\ gameState.birdsLeft <= StartingBirds(gameState.level)

\* C32: birdsLeft is in 0..(the level's starting birds) in every state; a
\* launch takes exactly one bird from it and happens only with a bird left;
\* nothing else changes it but the reset of a start, restart or level
\* advance.
C32_AmmunitionBounds ==
    /\ []AmmoInBounds
    /\ [][/\ LaunchStep => (gameState.birdsLeft > 0
                             /\ gameState'.birdsLeft = gameState.birdsLeft - 1)
          /\ gameState'.birdsLeft # gameState.birdsLeft => (LaunchStep \/ AmmoReset)
         ]_vars

\* the last bird of the level is in flight
C32_Witness ==
    /\ Flying
    /\ gameState.birdsLeft = 0
    /\ steps > 0

\* ------------------------------------------------ aiming and the launch lock
\* a pull is held only on a bird that is on the slingshot, not launched, with
\* the launch unlocked
PullOnLaunchable ==
    gameState.isPulling => (Unlaunched(gameState) /\ gameState.canLaunch)

\* a bird in flight keeps the launch locked
FlightLocksLaunch == Flying => ~gameState.canLaunch

\* outside a physics step a bird in flight is left as it is and costs no
\* further bird: it is not launched a second time
NoSecondLaunch ==
    (Flying /\ Flying' /\ ~PhysicsStepRuns)
        => (/\ gameState'.currentBird = gameState.currentBird
            /\ gameState'.birdsLeft = gameState.birdsLeft)

\* C33: in every reachable state isPulling implies that currentBird is
\* non-null, not launched and canLaunch is true; a launched bird implies
\* canLaunch false, and no handler launches a bird in flight again.
C33_AimingOnlyOnLaunchableBird ==
    /\ [](PullOnLaunchable /\ FlightLocksLaunch)
    /\ [][NoSecondLaunch]_vars

\* a pull is held on a later bird of the round, after a flight has ended
C33_Witness ==
    /\ gameState.isPulling
    /\ steps > 0
    /\ gameState.birdsLeft < StartingBirds(gameState.level)

\* ------------------------------------------------- one evaluation per stop
\* a pull of nothing, a pull to the left and a little down, which sends the
\* bird rolling to the right bound, and a pull to the right, which sends it
\* to the pillars on the left
StopPulls == {<<0, 0>>, <<-60, 4>>, <<68, 0>>}

\* a pull of the mouse from the bird, held for minPullDuration and released
StopShot ==
    /\ Unlaunched(gameState) /\ gameState.canLaunch /\ ~gameState.isTouching
    /\ now < MaxEndShots * minPullDuration
    /\ \E v \in StopPulls :
         LET from == Point(SlingshotX(canvas), SlingshotY(canvas))
             to == Point(from.x + Px(v[1]), from.y + Px(v[2]))
             down == handleMouseDown(gameState, from, now)
             moved == handleMouseMove(down, to, canvas)
         IN gameState' = handleMouseUp(moved, now + minPullDuration, canvas)
    /\ now' = now + minPullDuration
    /\ UNCHANGED <<canvas, timers, loop, ui, steps, removed, scored, physicsWorld,
                   placing, aim>>

StopInit == PageLoaded(GameCanvas)

StopNext ==
    \/ LoadingDone \/ CameraGranted
    \/ StopShot
    \/ EndFrame
    \/ EvaluateRound

StopSpec == StopInit /\ [][StopNext]_vars

\* the round evaluations that this step sets up
EvaluationsScheduled == IF timers' > timers THEN timers' - timers ELSE 0

\* C34: a launched bird runs birdStopped at most once, so the physics step
\* that stops it schedules exactly one round evaluation, also when the bird
\* comes to rest on the ground and leaves the bounds in the same step.
C34_OneEvaluationPerStop ==
    [][BirdStops => EvaluationsScheduled = 1]_vars

\* ------------------------------------------------------- stale stop timers
\* no bird of the round has stopped yet: none was launched, or the first one
\* is still in flight.  A round evaluation that is pending in such a state
\* was deferred by birdStopped in a round before.
NoStopInRound ==
    /\ gameState.isPlaying
    /\ \/ gameState.birdsLeft = StartingBirds(gameState.level)
       \/ (gameState.birdsLeft = StartingBirds(gameState.level) - 1 /\ Flying)

\* the deferred evaluation of a round before fires in this step
StaleEvaluation == NoStopInRound /\ EvaluateRound

\* C35: a round evaluation deferred before restartGame or nextLevel ran does
\* not change the new round's state when it fires: the bird (at rest, aimed
\* or flying), an active pull and the round's progress are left as they are.
C35_StaleTimerLeavesNewRound ==
    [][StaleEvaluation => (gameState' = gameState /\ ui' = ui)]_vars

\* ------------------------------------------------ the pull of the launch
\* this step starts an aiming session
SessionStarts == ~gameState.isPulling /\ gameState'.isPulling

\* the velocity that updatePullForce computes from the pull vector of gs
PullVelocity(gs) ==
    IF gs.pullStart.isNull \/ gs.pullEnd.isNull THEN [x |-> 0, y |-> 0]
    ELSE LaunchVelocity(gs.pullEnd.x - gs.pullStart.x, gs.pullEnd.y - gs.pullStart.y)

\* a session starts with no pull yet: released as it is, it launches with (0, 0)
SessionStartsAtZero ==
    SessionStarts => gameState'.launchVelocity = [x |-> 0, y |-> 0]

\* within a session the launch velocity changes only to that of the session's
\* pull vector, from the start of the session to the pointer or the hand
AimFollowsPull ==
    (gameState.isPulling /\ gameState'.isPulling
        /\ gameState'.launchVelocity # gameState.launchVelocity)
        => (/\ gameState'.pullStart = gameState.pullStart
            /\ gameState'.launchVelocity = PullVelocity(gameState'))

\* the launch gives the bird the launch velocity of the session that ends
LaunchTakesAim ==
    LaunchStep => (/\ gameState.isPulling
                   /\ gameState'.currentBird.vx = gameState.launchVelocity.x
                   /\ gameState'.currentBird.vy = gameState.launchVelocity.y)

\* C36: the velocity given to the bird at launch is the one computed from the
\* pull vector (pullStart to pullEnd) of the aiming session that ends in the
\* launch: a session starts at velocity (0, 0) whatever earlier pulls left,
\* follows its own pull vector, and the launch takes what the session set.
C36_LaunchUsesCurrentPullOnly ==
    [][SessionStartsAtZero /\ AimFollowsPull /\ LaunchTakesAim]_vars

\* a bird launched from the rest position of the slingshot, where a pull
\* vector of (0, 0) leaves it, with a velocity that is not (0, 0)
StaleAimLaunched ==
    /\ Flying
    /\ gameState.currentBird.x = SlingshotX(canvas)
    /\ gameState.currentBird.y = SlingshotY(canvas)
    /\ gameState.currentBird.vx # 0

\* --------------------------------------------------- harm of a stopped bird
\* the pigs and blocks after this step are those before it, moved by their
\* own settling only: none was hit, pushed or removed
BodiesOnlySettle ==
    LET groundY == Mul(Px(canvas.height), GROUND_Y_RATIO)
    IN /\ gameState'.pigs =
             [k \in 1..Len(gameState.pigs) |-> SettlePig(gameState.pigs[k], groundY)]
       /\ gameState'.blocks =
             [k \in 1..Len(gameState.blocks) |-> SettleBlock(gameState.blocks[k], groundY)]

\* this step scores nothing and removes nothing
NothingScored ==
    /\ gameState'.score = gameState.score
    /\ removed' = removed
    /\ scored' = scored

\* a physics step with no bird in flight
StepWithoutFlight == PhysicsStepRuns /\ ~Flying

SampleOf(kind) ==
    \E res \in HandResults(canvas) : res.kind = kind /\ HandsResultOf(res)

\* every launch asks for a hand reset
LaunchAsksReset == LaunchStep => gameState'.needsHandReset

\* the request is withdrawn only by a sample of the hand that is not pinching
ResetOnlyByOpenHand ==
    (gameState.needsHandReset /\ ~gameState'.needsHandReset) => SampleOf("open")

\* while the reset is asked for, a pinching sample changes nothing of the
\* game: not isPinching, not isPulling, not the bird
PinchIgnoredUntilReset ==
    (gameState.needsHandReset /\ SampleOf("pinch")) => gameState' = gameState

\* C38: after a launch no pinch starts a pull before the hand tracker has
\* delivered a sample of the controlling hand that is not pinching; while
\* needsHandReset is true a pinching sample changes neither isPinching,
\* isPulling nor the bird.
C38_HandResetAfterLaunch ==
    [][LaunchAsksReset /\ ResetOnlyByOpenHand /\ PinchIgnoredUntilReset]_vars

\* a sample was delivered while the reset is asked for and a new bird waits
\* on the slingshot, and no pull is held
C38_Witness ==
    /\ gameState.needsHandReset
    /\ Unlaunched(gameState) /\ gameState.canLaunch
    /\ gameState.birdsLeft < StartingBirds(gameState.level)
    /\ loop.pc = "send" /\ loop.delivered
    /\ ~gameState.isPulling

====
